---- MODULE Spec2Model ----
(***************************************************************************)
(* Row-building pipeline of the Stremio add-on (version 1.4.2,             *)
(* src/unnamed/part_001): traktList, fetchCinemetaMeta, enrichKeep,        *)
(* buildRows and the catalog handler.                                      *)
(*                                                                         *)
(* Values.  A text value is a string; a property that is absent            *)
(* (JavaScript undefined) is the string Undefined, and both it and the     *)
(* empty string are falsy.  A year is an integer, 0 standing for every     *)
(* falsy year (undefined, NaN, 0).  An IMDb id is a sequence of            *)
(* characters, <<>> standing for a missing (or empty) id.                  *)
(***************************************************************************)
EXTENDS Integers, Sequences, FiniteSets, TLC

VARIABLES
    pc,        \* position of the call in progress
    caller,    \* who called buildRows: "direct" or the "catalog" handler
    wantMany,  \* buildRows: the wantMany argument
    trakt,     \* list service: how it answered the three list requests
    lists,     \* buildRows: what the three traktList calls returned
    rows,      \* buildRows: the rows returned
    request,   \* catalog handler: id, type, skip and limit of the request
    served,    \* catalog handler: items, page and the metas returned
    ekItems,   \* enrichKeep: the items argument
    ekHint,    \* enrichKeep: the typeHint argument
    ekSvc,     \* metadata service: its answer to each lookup of the pass
    ekOut,     \* enrichKeep: the value returned
    cache,     \* the shared cache: its entries, least recently used first
    now,       \* the clock, in milliseconds
    pending,   \* meta handler: the requests awaiting fetchCinemetaMeta
    mres,      \* meta handler: the last reply
    issued,    \* metadata service: the lookups the last enrichment sent it
    userEvents, \* the event log of each user
    reply,     \* POST /api/events: the last reply
    feed,      \* GET /api/feed: the request awaiting buildRows
    rkEvents,  \* buildUserVec: the events argument
    rkItems,   \* rerank: the items argument
    rkDiv,     \* rerank: the diversify argument
    rkVec,     \* the value buildUserVec returned, rerank's userVec
    rkOut      \* rerank: the value returned

\* the state of the row pipeline, of the meta handler and its cache, of the
\* event log and its handlers, and of a call of the ranker
rowVars == <<pc, caller, wantMany, trakt, lists, rows, request, served, ekItems, ekHint, ekSvc, ekOut>>
metaVars == <<cache, now, pending, mres, issued>>
eventVars == <<userEvents, reply, feed>>
rankVars == <<rkEvents, rkItems, rkDiv, rkVec, rkOut>>

vars == <<rowVars, metaVars, eventVars, rankVars>>

(***************************************************************************)
(* Bounds of the model                                                     *)
(***************************************************************************)
\* longest list whose every shape is enumerated
MaxLen == 2
\* number of distinct identifiers in the enumerated lists
NumIds == 2
\* meta requests that can await the metadata service at the same time
MaxPending == 1
\* events accepted in a run
MaxEvents == 2
\* catalog requests made one after the other
MaxRequests == 2

(***************************************************************************)
(* Program constants                                                       *)
(***************************************************************************)
\* enrichKeep: items.slice(0, 200)
EnrichPool == 200
\* buildRows: if (qualityBase.length < 30) qualityBase = tMovies
QualityMin == 30
\* buildRows: const cap = wantMany ? 200 : 50
CapMany == 200
CapFew == 50
\* catalog handler: Number((extra && extra.limit) || 50)
DefaultLimit == 50
\* catalog handler: Math.min(..., 100)
MaxLimit == 100

(***************************************************************************)
(* JavaScript values                                                       *)
(***************************************************************************)
Undefined == "<undefined>"

Falsy(s) == s \in {"", Undefined}

\* a || b on text values
Or(a, b) == IF Falsy(a) THEN b ELSE a

\* a || b on numbers
OrNum(a, b) == IF a = 0 THEN b ELSE a

\* xs.slice(0, n)
Take(xs, n) == SubSeq(xs, 1, IF Len(xs) < n THEN Len(xs) ELSE n)

\* xs.slice(from, to) with 0 <= from
Slice(xs, from, to) == SubSeq(xs, from + 1, IF Len(xs) < to THEN Len(xs) ELSE to)

Digit == {"0", "1", "2", "3", "4", "5", "6", "7", "8", "9"}

DigitVal(c) == CASE c = "0" -> 0 [] c = "1" -> 1 [] c = "2" -> 2 [] c = "3" -> 3
                 [] c = "4" -> 4 [] c = "5" -> 5 [] c = "6" -> 6 [] c = "7" -> 7
                 [] c = "8" -> 8 [] c = "9" -> 9

DigitChar(d) == CASE d = 0 -> "0" [] d = 1 -> "1" [] d = 2 -> "2" [] d = 3 -> "3"
                  [] d = 4 -> "4" [] d = 5 -> "5" [] d = 6 -> "6" [] d = 7 -> "7"
                  [] d = 8 -> "8" [] d = 9 -> "9"

\* the decimal digits of n
RECURSIVE Digits(_)
Digits(n) == IF n < 10 THEN <<DigitChar(n)>>
             ELSE Append(Digits(n \div 10), DigitChar(n % 10))

\* Number(s) for a string of at most four characters: its decimal value,
\* 0 for the empty string, and NaN (falsy, here 0) when a character is no digit
RECURSIVE NumberOf(_)
NumberOf(cs) ==
    IF cs = <<>> THEN 0
    ELSE IF \E i \in 1..Len(cs) : cs[i] \notin Digit THEN 0
    ELSE 10 * NumberOf(SubSeq(cs, 1, Len(cs) - 1)) + DigitVal(cs[Len(cs)])

\* the characters of an id as one text
RECURSIVE Text(_)
Text(cs) == IF cs = <<>> THEN "" ELSE cs[1] \o Text(Tail(cs))

\* the well-formed identifier tt<n>
Imdb(n) == <<"t", "t">> \o Digits(n)

(***************************************************************************)
(* Metadata service (Cinemeta)                                             *)
(***************************************************************************)
\* the meta object the service holds for an id
CinemetaRecord(type, imdbId) ==
    [ name        |-> "Name of " \o Text(imdbId),
      title       |-> Undefined,
      originalName |-> Undefined,
      description |-> "About " \o Text(imdbId),
      overview    |-> Undefined,
      poster      |-> "poster/" \o Text(imdbId),
      background  |-> Undefined,
      genres      |-> <<"Drama", "Comedy">>,
      releaseInfo |-> <<"2", "0", "1", "9", "-", "2", "0", "2", "1">>,
      year        |-> 0 ]

\* `meta` when the body has no meta property: every meta?.x is undefined
NoMeta ==
    [ name |-> Undefined, title |-> Undefined, originalName |-> Undefined,
      description |-> Undefined, overview |-> Undefined, poster |-> Undefined,
      background |-> Undefined, genres |-> <<>>, releaseInfo |-> <<>>, year |-> 0 ]

\* how the service can answer one lookup
MetaOutcome == {"ok", "nometa", "status", "throw", "badjson"}

\* the HTTP exchange of one lookup: whether fetch resolved, r.ok, whether
\* r.json() resolved, and the meta property of the body
CinemetaResponse(outcome, type, imdbId) ==
    [ net  |-> IF outcome = "throw" THEN "error" ELSE "ok",
      ok   |-> outcome # "status",
      json |-> IF outcome = "badjson" THEN "error" ELSE "parsed",
      meta |-> IF outcome = "ok" THEN CinemetaRecord(type, imdbId) ELSE NoMeta ]

\* a behaviour of the service during one enrichment pass: the outcome of the
\* i-th lookup is head[i], and rest for every lookup after the head
OutcomeAt(svc, i) == IF i \in DOMAIN svc.head THEN svc.head[i] ELSE svc.rest

Raise == [raised |-> TRUE]

Return(v) == [raised |-> FALSE, value |-> v]

\* async function fetchCinemetaMeta(type, imdbId), given the exchange r
FetchCinemetaMeta(type, imdbId, r) ==
    IF r.net = "error" THEN Raise
    ELSE IF ~r.ok THEN Raise
    ELSE IF r.json = "error" THEN Raise
    ELSE LET meta == r.meta IN
         Return([ id          |-> imdbId,
                  type        |-> type,
                  name        |-> Or(Or(Or(meta.name, meta.title), meta.originalName), "Unknown"),
                  description |-> Or(Or(meta.description, meta.overview), ""),
                  poster      |-> Or(Or(meta.poster, meta.background), ""),
                  genres      |-> meta.genres,
                  year        |-> IF meta.releaseInfo # <<>>
                                  THEN NumberOf(Take(meta.releaseInfo, 4))
                                  ELSE meta.year ])

(***************************************************************************)
(* enrichKeep                                                              *)
(***************************************************************************)
\* a loop body that rates an enriched candidate 5 when it has no rating
EnrichItemDefaultRating(it, typeHint, outcome) ==
    LET type == Or(Or(it.type, typeHint), "movie")
        got  == FetchCinemetaMeta(type, it.id, CinemetaResponse(outcome, type, it.id))
    IN  IF got.raised THEN it
        ELSE LET m == got.value IN
             [ id          |-> m.id,
               title       |-> Or(m.name, it.title),
               year        |-> OrNum(m.year, it.year),
               poster      |-> Or(Or(m.poster, it.poster), ""),
               description |-> Or(m.description, ""),
               genres      |-> m.genres,
               rating      |-> OrNum(it.rating, 5),
               type        |-> Or(Or(Or(m.type, it.type), typeHint), "movie") ]

\* a loop body whose lookup swallows its failure and answers with defaults
EnrichItemDefaultsOnFailure(it, typeHint, outcome) ==
    LET type == Or(Or(it.type, typeHint), "movie")
        got  == FetchCinemetaMeta(type, it.id,
                    CinemetaResponse(IF outcome = "ok" THEN "ok" ELSE "nometa", type, it.id))
        m    == got.value
    IN  [ id          |-> m.id,
          title       |-> Or(m.name, it.title),
          year        |-> OrNum(m.year, it.year),
          poster      |-> Or(Or(m.poster, it.poster), ""),
          description |-> Or(m.description, ""),
          genres      |-> m.genres,
          rating      |-> OrNum(it.rating, 0),
          type        |-> Or(Or(Or(m.type, it.type), typeHint), "movie") ]

\* the body of the for loop: the try block, and the catch block when
\* fetchCinemetaMeta raised
EnrichItem(it, typeHint, outcome) ==
    LET type == Or(Or(it.type, typeHint), "movie")
        got  == FetchCinemetaMeta(type, it.id, CinemetaResponse(outcome, type, it.id))
    IN  IF got.raised THEN it
        ELSE LET m == got.value IN
             [ id          |-> m.id,
               title       |-> Or(m.name, it.title),
               year        |-> OrNum(m.year, it.year),
               poster      |-> Or(Or(m.poster, it.poster), ""),
               description |-> Or(m.description, ""),
               genres      |-> m.genres,
               rating      |-> OrNum(it.rating, 0),
               type        |-> Or(Or(Or(m.type, it.type), typeHint), "movie") ]

\* a de-duplication that keeps the last element of each id instead of the first
DedupKeepLast(xs) ==
    LET later(i) == {xs[j].id : j \in (i + 1)..Len(xs)}
        kept == SelectSeq([i \in 1..Len(xs) |-> i], LAMBDA i : xs[i].id \notin later(i))
    IN  [k \in 1..Len(kept) |-> xs[kept[k]]]

\* out.filter(x => (seen.has(x.id) ? false : (seen.add(x.id), true))): when
\* the filter reaches index i, `seen` holds the ids of the elements before i
Dedup(xs) ==
    LET seen(i) == {xs[j].id : j \in 1..(i - 1)}
        kept == SelectSeq([i \in 1..Len(xs) |-> i], LAMBDA i : xs[i].id \notin seen(i))
    IN  [k \in 1..Len(kept) |-> xs[kept[k]]]

\* an enrichment whose catch block drops the item instead of keeping it
EnrichLoopDropFailed(items, typeHint, svc) ==
    LET top == Take(items, EnrichPool)
        kept == SelectSeq([i \in 1..Len(top) |-> i],
                          LAMBDA i : OutcomeAt(svc, i) \in {"ok", "nometa"})
    IN  [k \in 1..Len(kept) |-> EnrichItem(top[kept[k]], typeHint, OutcomeAt(svc, kept[k]))]

\* the list `out` when the for loop has ended
EnrichLoop(items, typeHint, svc) ==
    LET top == Take(items, EnrichPool)
    IN  [i \in 1..Len(top) |-> EnrichItem(top[i], typeHint, OutcomeAt(svc, i))]

\* async function enrichKeep(items, typeHint)
EnrichKeep(items, typeHint, svc) == Dedup(EnrichLoop(items, typeHint, svc))

(***************************************************************************)
(* List service (Trakt) and traktList                                      *)
(***************************************************************************)
\* a row of the list service: `wrap` says whether the title is nested under
\* row.movie, under row.show, or is the row itself
RawRow(wrap, imdb, title, year) ==
    [wrap |-> wrap, imdb |-> imdb, title |-> title, year |-> year]

\* how the service can answer one list request
ListOutcome == {"ok", "status", "throw", "badjson"}

\* the HTTP exchange of one list request
TraktResponse(outcome, data) ==
    [ net  |-> IF outcome = "throw" THEN "error" ELSE "ok",
      ok   |-> outcome # "status",
      json |-> IF outcome = "badjson" THEN "error" ELSE "parsed",
      data |-> IF outcome = "ok" THEN data ELSE <<>> ]

\* /^tt\d+/.test(imdb): the pattern is anchored at the start only
MatchesTt(imdb) ==
    /\ Len(imdb) >= 3
    /\ imdb[1] = "t"
    /\ imdb[2] = "t"
    /\ imdb[3] \in Digit

\* the callback of data.map: the candidate of a row, or null
NormalizeRow(type, row) ==
    LET isMovie == row.wrap = "movie" \/ type = "movies"
        isShow  == row.wrap = "show" \/ type = "shows"
    IN  IF row.imdb = <<>> \/ ~MatchesTt(row.imdb) THEN [null |-> TRUE]
        ELSE [ null |-> FALSE,
               item |-> [ id |-> row.imdb, title |-> row.title, year |-> row.year,
                          poster |-> "", genres |-> <<>>, rating |-> 0,
                          type |-> IF isMovie THEN "movie"
                                   ELSE IF isShow THEN "series" ELSE "movie",
                          description |-> Undefined ] ]

\* async function traktList({ type, path, limit, page }), given the exchange r
TraktList(type, r) ==
    IF r.net = "error" THEN Raise
    ELSE IF ~r.ok THEN Return(<<>>)
    ELSE IF r.json = "error" THEN Raise
    ELSE LET mapped == [i \in 1..Len(r.data) |-> NormalizeRow(type, r.data[i])]
             kept   == SelectSeq(mapped, LAMBDA x : ~x.null)
         IN  Return([i \in 1..Len(kept) |-> kept[i].item])

(***************************************************************************)
(* buildRows                                                               *)
(***************************************************************************)
\* the three traktList calls of the first Promise.all
ListCalls(world) ==
    << TraktList("movies", world[1]), TraktList("movies", world[2]),
       TraktList("shows", world[3]) >>

\* Promise.all rejects as soon as one of its promises rejects
AnyRaised(results) == \E i \in DOMAIN results : results[i].raised

\* a quality base that walks the popular list instead of the trending one
QualityBasePopularOrder(tMovies, pMovies) ==
    LET trendSet == {tMovies[i].id : i \in DOMAIN tMovies}
        common == SelectSeq(pMovies, LAMBDA m : m.id \in trendSet)
    IN  IF Len(common) < QualityMin THEN tMovies ELSE common

\* qualityBase: the trending movies whose id is popular, or all of them
QualityBase(tMovies, pMovies) ==
    LET popSet == {pMovies[i].id : i \in DOMAIN pMovies}
        common == SelectSeq(tMovies, LAMBDA m : m.id \in popSet)
    IN  IF Len(common) < QualityMin THEN tMovies ELSE common

\* a capacity with its two cases exchanged
CapSwapped(wm) == IF wm THEN CapFew ELSE CapMany

Cap(wm) == IF wm THEN CapMany ELSE CapFew

\* the rows returned, given the lists and the behaviour of the metadata
\* service during each of the four enrichKeep passes
BuildRows(tMovies, pMovies, tShows, wm, svc) ==
    LET qualityBase == QualityBase(tMovies, pMovies)
        aiMovies == EnrichKeep(tMovies, "movie", svc[1])
        aiSeries == EnrichKeep(tShows, "series", svc[2])
        trending == EnrichKeep(tMovies, "movie", svc[3])
        quality  == EnrichKeep(qualityBase, "movie", svc[4])
        cap == Cap(wm)
    IN  << [id |-> "ai-movies", title |-> "AI Picks (Movies)",  items |-> Take(aiMovies, cap)],
           [id |-> "ai-series", title |-> "AI Picks (Series)",  items |-> Take(aiSeries, cap)],
           [id |-> "trending",  title |-> "Trending Now",       items |-> Take(trending, cap)],
           [id |-> "quality",   title |-> "Quality Selections", items |-> Take(quality, cap)] >>

(***************************************************************************)
(* Catalog handler                                                         *)
(***************************************************************************)
\* rows.find(r => r.id === id): the row, or no row
FindRow(rs, id) ==
    IF \E i \in DOMAIN rs : rs[i].id = id
    THEN <<rs[CHOOSE i \in DOMAIN rs : rs[i].id = id /\ \A j \in 1..(i - 1) : rs[j].id # id]>>
    ELSE <<>>

\* function pickRowForCatalog(catalogId, rows): <<row>>, or <<>> for undefined
PickRowForCatalog(catalogId, rs) ==
    IF catalogId = "trending-v2" THEN FindRow(rs, "trending")
    ELSE IF catalogId = "quality-v2" THEN FindRow(rs, "quality")
    ELSE IF catalogId = "ai-movies-v2" THEN FindRow(rs, "ai-movies")
    ELSE IF catalogId = "ai-series-v2" THEN FindRow(rs, "ai-series")
    ELSE IF rs = <<>> THEN <<>> ELSE <<rs[1]>>

\* a handler that pages over the picked row even when it has no items
PickItemsNoFallback(catalogId, rs) ==
    LET row == PickRowForCatalog(catalogId, rs)
    IN  IF row # <<>> THEN row[1].items ELSE <<>>

\* the items paged over: those of the picked row, or of the first row that
\* has any, or none
PickItems(catalogId, rs) ==
    LET row == PickRowForCatalog(catalogId, rs)
        nonEmpty == SelectSeq(rs, LAMBDA r : Len(r.items) > 0)
    IN  IF row # <<>> /\ Len(row[1].items) > 0 THEN row[1].items
        ELSE IF nonEmpty # <<>> THEN nonEmpty[1].items ELSE <<>>

\* a toStremioMeta that does not look at the poster
ToStremioMetaAnyPoster(it, forcedType) ==
    IF it.id = <<>> \/ Falsy(it.title) THEN <<>>
    ELSE << [ id |-> it.id,
              type |-> Or(Or(forcedType, it.type), "movie"),
              name |-> it.title,
              poster |-> it.poster,
              description |-> Or(it.description, ""),
              genres |-> it.genres,
              year |-> it.year ] >>

\* function toStremioMeta(it, forcedType): <<meta>>, or <<>> for null
ToStremioMeta(it, forcedType) ==
    IF it.id = <<>> \/ Falsy(it.title) THEN <<>>
    ELSE LET poster == Or(it.poster, "") IN
         IF poster = "" THEN <<>>
         ELSE << [ id |-> it.id,
                   type |-> Or(Or(forcedType, it.type), "movie"),
                   name |-> it.title,
                   poster |-> poster,
                   description |-> Or(it.description, ""),
                   genres |-> it.genres,
                   year |-> it.year ] >>

\* page.map(it => toStremioMeta(it, type)).filter(Boolean)
ToMetas(page, type) ==
    LET mapped == [i \in 1..Len(page) |-> ToStremioMeta(page[i], type)]
        kept   == SelectSeq(mapped, LAMBDA x : x # <<>>)
    IN  [i \in 1..Len(kept) |-> kept[i][1]]

\* Math.min(Number((extra && extra.limit) || 50), 100); 0 stands for an
\* absent (or zero) extra.limit
PageLimit(extraLimit) ==
    LET wanted == OrNum(extraLimit, DefaultLimit)
    IN  IF wanted < MaxLimit THEN wanted ELSE MaxLimit

(***************************************************************************)
(* Inputs                                                                  *)
(***************************************************************************)
\* a candidate as traktList builds it
TraktCandidate(imdb, title, year, type) ==
    [ id |-> imdb, title |-> title, year |-> year, poster |-> "", genres |-> <<>>,
      rating |-> 0, type |-> type, description |-> Undefined ]

Range(f) == {f[i] : i \in DOMAIN f}

\* all sequences over S of length at most n
SeqsUpTo(S, n) == UNION {[1..k -> S] : k \in 0..n}

\* the candidates of the enumerated lists: two spellings per identifier, so
\* that elements sharing an identifier can be told apart
ShortCandidates ==
    {TraktCandidate(Imdb(n), v[1], v[2], "movie") : n \in 1..NumIds, v \in {<<"A", 2020>>, <<"B", 0>>}}

\* the candidates tt<lo> .. tt<hi> in ascending order
Run(lo, hi) ==
    [i \in 1..(hi - lo + 1) |->
        TraktCandidate(Imdb(lo + i - 1), "Title " \o Text(Digits(lo + i - 1)), 2020, "movie")]

\* lists around the size of the enrichment pool
LongInputs ==
    { Run(1, EnrichPool), Run(1, EnrichPool + 1), Run(1, EnrichPool - 1) \o Run(1, 2) }

\* behaviours of the metadata service during one pass
ServiceBehaviours ==
    {[head |-> h, rest |-> r] : h \in SeqsUpTo(MetaOutcome, MaxLen), r \in {"ok", "status"}}

(***************************************************************************)
(* The service: direct calls of buildRows and catalog requests             *)
(***************************************************************************)
\* rows the list service returns in the enumerated lists: one per
\* identifier, and one that carries no identifier
ShortRows(wrap) ==
    {RawRow(wrap, Imdb(n), "Movie " \o Text(Digits(n)), 2020) : n \in 1..NumIds}
        \cup {RawRow(wrap, <<>>, "No id", 2020)}

ShowRows == {RawRow("show", Imdb(1), "Show 1", 2021)}

\* the rows tt<lo> .. tt<hi> in ascending order
RawRun(wrap, lo, hi) ==
    [i \in 1..(hi - lo + 1) |->
        RawRow(wrap, Imdb(lo + i - 1), "Movie " \o Text(Digits(lo + i - 1)), 2020)]

\* xs reversed
Reverse(xs) == [i \in 1..Len(xs) |-> xs[Len(xs) + 1 - i]]

\* answers of the list service to movies/trending, movies/popular and
\* shows/trending: every short trending list and every way of failing (a
\* popular list this short only matters by being there, empty or failing)
ShortWorlds ==
    LET answers(data) == {TraktResponse("ok", d) : d \in data}
                            \cup {TraktResponse(o, <<>>) : o \in ListOutcome \ {"ok"}}
    IN  answers(SeqsUpTo(ShortRows("movie"), MaxLen))
            \X answers(SeqsUpTo(ShortRows("none"), 1))
            \X answers(SeqsUpTo(ShowRows, 1))

\* answers around the quality threshold and the row capacity
LongWorlds ==
    LET ok(d) == TraktResponse("ok", d)
        show == <<RawRow("show", Imdb(1), "Show 1", 2021)>>
    IN  { \* QualityMin common ids, popular in the opposite order
          <<ok(RawRun("movie", 1, QualityMin + 1)), ok(Reverse(RawRun("none", 2, QualityMin + 1))), ok(show)>>,
          \* one common id fewer
          <<ok(RawRun("movie", 1, QualityMin + 1)), ok(Reverse(RawRun("none", 3, QualityMin + 1))), ok(show)>>,
          \* more common ids than the small capacity
          <<ok(RawRun("movie", 1, CapFew + 1)), ok(RawRun("none", 1, CapFew + 1)), ok(<<>>)>>,
          \* one common id fewer, one of the common ids listed twice as trending
          <<ok(RawRun("movie", 1, QualityMin + 1) \o RawRun("movie", 3, 3)),
            ok(RawRun("none", 3, QualityMin + 1)), ok(<<>>)>>,
          \* more trending ids than the enrichment pool
          <<ok(RawRun("movie", 1, EnrichPool + 1)), ok(<<>>), ok(<<>>)>> }

\* behaviours of the metadata service during one pass of buildRows: the
\* first lookup is answered or refused while the later ones succeed, or the
\* service is unreachable for the whole pass
PassBehaviours ==
    {[head |-> <<f>>, rest |-> "ok"] : f \in {"ok", "status"}}
        \cup {[head |-> <<>>, rest |-> "throw"]}

\* extra.skip and extra.limit of the catalog requests (0: not given)
PageArgs == {<<0, 0>>, <<1, 1>>}

CatalogIds == {"ai-movies-v2", "ai-series-v2", "trending-v2", "quality-v2", "other"}

NoRequest == [id |-> "", type |-> "", skip |-> 0, limit |-> 0]

NoPage == [items |-> <<>>, page |-> <<>>, metas |-> <<>>]

NoReply == [path |-> "", status |-> 0]

NoMetaReply == [outcome |-> "none"]

\* nothing cached, no meta request made
MetaIdle ==
    /\ cache = <<>>
    /\ now = 0
    /\ pending = <<>>
    /\ mres = NoMetaReply
    /\ issued = <<>>

\* no event posted, no feed request made
EventsIdle ==
    /\ userEvents = <<>>
    /\ reply = NoReply
    /\ feed = <<>>

\* the ranker not called
RankIdle ==
    /\ rkEvents = <<>>
    /\ rkItems = <<>>
    /\ rkDiv = FALSE
    /\ rkVec = <<>>
    /\ rkOut = <<>>

Init ==
    /\ pc = "idle"
    /\ caller = "none"
    /\ wantMany = FALSE
    /\ trakt = <<>>
    /\ lists = <<>>
    /\ rows = <<>>
    /\ request = NoRequest
    /\ served = NoPage
    /\ ekItems = <<>>
    /\ ekHint = "movie"
    /\ ekSvc = [head |-> <<>>, rest |-> "ok"]
    /\ ekOut = <<>>
    /\ MetaIdle /\ EventsIdle /\ RankIdle

\* buildRows({ userId, wantMany }) called on its own
CallBuildRows ==
    /\ pc = "idle"
    /\ \E wm \in BOOLEAN : wantMany' = wm
    /\ caller' = "direct"
    /\ pc' = "lists"
    /\ UNCHANGED <<trakt, lists, rows, request, served, ekItems, ekHint, ekSvc, ekOut>>
    /\ UNCHANGED <<metaVars, eventVars, rankVars>>

\* the catalog handler up to its call of buildRows({ userId, wantMany: true });
\* buildRows reads nothing of the request, whose id, type, skip and limit
\* are drawn where the handler uses them
CatalogRequest ==
    /\ pc = "idle"
    /\ wantMany' = TRUE
    /\ caller' = "catalog"
    /\ pc' = "lists"
    /\ UNCHANGED <<trakt, lists, rows, request, served, ekItems, ekHint, ekSvc, ekOut>>
    /\ UNCHANGED <<metaVars, eventVars, rankVars>>

\* buildRows: the first Promise.all settles
TraktLists ==
    /\ pc = "lists"
    /\ \E world \in ShortWorlds \cup LongWorlds :
          /\ trakt' = [i \in 1..3 |-> IF world[i].net = "error" THEN "throw"
                                      ELSE IF ~world[i].ok THEN "status"
                                      ELSE IF world[i].json = "error" THEN "badjson"
                                      ELSE "ok"]
          /\ lists' = ListCalls(world)
          /\ pc' = IF AnyRaised(ListCalls(world)) THEN "rejected" ELSE "pools"
    /\ UNCHANGED <<caller, wantMany, rows, request, served, ekItems, ekHint, ekSvc, ekOut>>
    /\ UNCHANGED <<metaVars, eventVars, rankVars>>

\* buildRows: the second Promise.all settles and the rows are returned
EnrichRows ==
    /\ pc = "pools"
    /\ \E svc \in [1..4 -> PassBehaviours] :
          rows' = BuildRows(lists[1].value, lists[2].value, lists[3].value, wantMany, svc)
    /\ pc' = "rows"
    /\ UNCHANGED <<caller, wantMany, trakt, lists, request, served, ekItems, ekHint, ekSvc, ekOut>>
    /\ UNCHANGED <<metaVars, eventVars, rankVars>>

\* the catalog handler after buildRows returned
CatalogPage ==
    /\ pc = "rows"
    /\ caller = "catalog"
    /\ \E id \in CatalogIds, extra \in PageArgs :
          LET type  == IF id = "ai-series-v2" THEN "series" ELSE "movie"
              skip  == extra[1]
              limit == PageLimit(extra[2])
              items == PickItems(id, rows)
              page  == Slice(items, skip, skip + limit)
          IN  /\ request' = [id |-> id, type |-> type, skip |-> skip, limit |-> limit]
              /\ served' = [items |-> items, page |-> page, metas |-> ToMetas(page, type)]
    /\ pc' = "served"
    /\ UNCHANGED <<caller, wantMany, trakt, lists, rows, ekItems, ekHint, ekSvc, ekOut>>
    /\ UNCHANGED <<metaVars, eventVars, rankVars>>

\* the call is over; the next one starts from nothing but the shared state
Finish ==
    /\ \/ pc = "rows" /\ caller = "direct"
       \/ pc \in {"served", "rejected"}
    /\ pc' = "idle"
    /\ caller' = "none"
    /\ wantMany' = FALSE
    /\ trakt' = <<>>
    /\ lists' = <<>>
    /\ rows' = <<>>
    /\ request' = NoRequest
    /\ served' = NoPage
    /\ UNCHANGED <<ekItems, ekHint, ekSvc, ekOut>>
    /\ UNCHANGED <<metaVars, eventVars, rankVars>>

Next == CallBuildRows \/ CatalogRequest \/ TraktLists \/ EnrichRows \/ CatalogPage \/ Finish

Spec == Init /\ [][Next]_vars

(***************************************************************************)
(* Claims about buildRows and the catalog handler (checked under Spec)     *)
(***************************************************************************)
\* ids of a list of candidates, as a set and in order
IdsOf(xs) == {xs[i].id : i \in DOMAIN xs}

IdSeq(xs) == [i \in 1..Len(xs) |-> xs[i].id]

\* indices of the elements that are the first with their id, ascending
FirstIndices(items) ==
    LET before(i) == {items[j].id : j \in 1..(i - 1)}
    IN  SelectSeq([i \in 1..Len(items) |-> i], LAMBDA i : items[i].id \notin before(i))

\* the candidates enrichKeep keeps of a list: of the first 200, the first
\* with each id, in order
PoolFirsts(items) ==
    LET top == Take(items, EnrichPool)
        firsts == FirstIndices(top)
    IN  [k \in 1..Len(firsts) |-> top[firsts[k]]]

\* x is what enrichKeep makes of the candidate it: kept as it is, or enriched
KeptOrEnriched(x, it) == x = it \/ x = EnrichItem(it, it.type, "ok")

\* xs holds, item by item, what enrichKeep makes of the first n survivors of
\* the pool
PrefixOfPool(xs, pool, n) ==
    LET src == Take(PoolFirsts(pool), n)
    IN  /\ Len(xs) = Len(src)
        /\ \A j \in 1..Len(src) : xs[j].id = src[j].id /\ KeptOrEnriched(xs[j], src[j])

\* a metadata service that answers every lookup
AllOk == [head |-> <<>>, rest |-> "ok"]

\* the rows buildRows returns from the same lists when every lookup succeeds
RowsWithoutOutage ==
    BuildRows(lists[1].value, lists[2].value, lists[3].value, wantMany, [i \in 1..4 |-> AllOk])

\* the page item has what toStremioMeta asks for
Presentable(it) == it.id # <<>> /\ ~Falsy(it.title) /\ ~Falsy(it.poster)

\* C4 as claimed: the handler returns as many metas as it would if every
\* lookup had succeeded.
C4_OutageNeverShortensPage ==
    pc = "served" =>
        LET items == PickItems(request.id, RowsWithoutOutage)
            page  == Slice(items, request.skip, request.skip + request.limit)
        IN  Len(served.metas) = Len(ToMetas(page, request.type))

\* C4 as amended: the row paged over and the page cut from it are as long as
\* they would be if every lookup had succeeded, and hold the same ids; the
\* metas returned are the page items that have an id, a title and a poster,
\* in page order.
C4_PageLengthKeptMetasFiltered ==
    pc = "served" =>
        LET items == PickItems(request.id, RowsWithoutOutage)
            page  == Slice(items, request.skip, request.skip + request.limit)
            shown == SelectSeq(served.page, Presentable)
        IN  /\ Len(served.items) = Len(items)
            /\ IdSeq(served.page) = IdSeq(page)
            /\ Len(served.metas) = Len(shown)
            /\ \A i \in DOMAIN shown : served.metas[i].id = shown[i].id

\* C4 witness: a page of two items, one of them unenriched, and one meta returned
C4_Witness ==
    /\ pc = "served"
    /\ Len(served.page) = 2
    /\ \E i \in DOMAIN served.page : served.page[i].poster = ""
    /\ Len(served.metas) = 1

\* C5: traktList never raises; when the list service fails (status, transport
\* error, unparsable body) the call returns an empty sequence.
C5_TraktListNeverRaises ==
    pc \in {"pools", "rejected"} =>
        \A i \in 1..3 : trakt[i] # "ok" => (~lists[i].raised /\ lists[i].value = <<>>)

\* C6: buildRows completes with four rows whatever list fetch or lookup fails.
C6_BuildRowsAlwaysCompletes ==
    /\ pc # "rejected"
    /\ pc \in {"rows", "served"} => Len(rows) = 4

\* C7: when fewer than 30 ids are common to movies/trending and
\* movies/popular, the quality row is the enriched trending pool, in trending
\* order, cut to the capacity.
C7_SmallIntersectionFallsBack ==
    pc = "rows" =>
        LET tMovies == lists[1].value
            pMovies == lists[2].value
        IN  Cardinality(IdsOf(tMovies) \cap IdsOf(pMovies)) < QualityMin =>
                PrefixOfPool(rows[4].items, tMovies, IF wantMany THEN CapMany ELSE CapFew)

\* the trending candidates whose id is popular, in trending order
CommonInTrendingOrder == 
    LET popular == IdsOf(lists[2].value)
    IN  SelectSeq(lists[1].value, LAMBDA m : m.id \in popular)

\* C8 as claimed: with at least 30 common ids the quality row holds exactly
\* the candidates whose id is in both pools, in trending order.
C8_QualityIsWholeIntersection ==
    pc = "rows" =>
        LET common == IdsOf(lists[1].value) \cap IdsOf(lists[2].value)
        IN  Cardinality(common) >= QualityMin =>
                /\ IdsOf(rows[4].items) = common
                /\ IdSeq(rows[4].items) = IdSeq(PoolFirsts(CommonInTrendingOrder))

\* C8 as amended: with at least 30 common ids the quality row holds no
\* candidate but those whose id is in both pools, one per id, in trending
\* order: the first `capacity` of them (of the first 200 common entries).
C8_QualityIsIntersectionPrefix ==
    pc = "rows" =>
        LET common == IdsOf(lists[1].value) \cap IdsOf(lists[2].value)
        IN  Cardinality(common) >= QualityMin =>
                /\ IdsOf(rows[4].items) \subseteq common
                /\ PrefixOfPool(rows[4].items, CommonInTrendingOrder,
                                IF wantMany THEN CapMany ELSE CapFew)

\* C8 witness: 30 common ids among 31 trending ones, popular in another
\* order, and a quality row of those 30 starting with the first common one
C8_Witness ==
    /\ pc = "rows"
    /\ Len(lists[1].value) = QualityMin + 1
    /\ Cardinality(IdsOf(lists[1].value) \cap IdsOf(lists[2].value)) = QualityMin
    /\ lists[2].value[1].id = lists[1].value[QualityMin + 1].id
    /\ Len(rows[4].items) = QualityMin
    /\ rows[4].items[1].id = lists[1].value[2].id
    /\ Len(rows[3].items) = QualityMin + 1

\* the list each row is enriched from
RowPool(i) ==
    CASE i = 1 -> lists[1].value
      [] i = 2 -> lists[3].value
      [] i = 3 -> lists[1].value
      [] i = 4 -> QualityBase(lists[1].value, lists[2].value)

\* C9: four rows, ai-movies, ai-series, trending, quality; at most 200 items
\* each when wantMany and 50 otherwise; each row the prefix of that length
\* of its pool, one candidate per id, in upstream order.
C9_FourRowsCappedInUpstreamOrder ==
    pc = "rows" =>
        /\ [i \in 1..Len(rows) |-> rows[i].id] = <<"ai-movies", "ai-series", "trending", "quality">>
        /\ \A i \in 1..4 :
              /\ Len(rows[i].items) <= (IF wantMany THEN CapMany ELSE CapFew)
              /\ PrefixOfPool(rows[i].items, RowPool(i), IF wantMany THEN CapMany ELSE CapFew)

\* C9 witness: a small-pool build whose trending row is full while the
\* trending list is longer, a lookup having failed
C9_Witness ==
    /\ pc = "rows"
    /\ ~wantMany
    /\ Len(lists[1].value) = CapFew + 1
    /\ Len(rows[3].items) = CapFew
    /\ rows[3].items[1].poster = ""
    /\ rows[3].items[CapFew].id = lists[1].value[CapFew].id

\* C10: the ai-movies row and the trending row have identical content.
C10_AiMoviesEqualsTrending ==
    pc = "rows" => rows[1].items = rows[3].items

\* the row a catalog id names, by its place in the rows buildRows returns
SelectedRow(catalogId) ==
    CASE catalogId = "ai-movies-v2" -> 1
      [] catalogId = "ai-series-v2" -> 2
      [] catalogId = "trending-v2" -> 3
      [] catalogId = "quality-v2" -> 4
      [] OTHER -> 1

\* the places of the rows that have at least one item
NonEmptyRows == {i \in DOMAIN rows : rows[i].items # <<>>}

\* the first of them
FirstNonEmptyRow == CHOOSE i \in NonEmptyRows : \A j \in NonEmptyRows : i <= j

InitEnrich ==
    /\ pc = "enrich"
    /\ caller = "none"
    /\ wantMany = FALSE
    /\ trakt = <<>>
    /\ lists = <<>>
    /\ rows = <<>>
    /\ request = NoRequest
    /\ served = NoPage
    /\ \/ ekItems \in SeqsUpTo(ShortCandidates, MaxLen)
       \/ ekItems \in LongInputs
    /\ ekHint \in {"movie", "series"}
    /\ ekSvc \in ServiceBehaviours
    /\ ekOut = <<>>
    /\ MetaIdle /\ EventsIdle /\ RankIdle

EnrichKeepCall ==
    /\ pc = "enrich"
    /\ ekOut' = EnrichKeep(ekItems, ekHint, ekSvc)
    /\ pc' = "enriched"
    /\ UNCHANGED <<caller, wantMany, trakt, lists, rows, request, served, ekItems, ekHint, ekSvc>>
    /\ UNCHANGED <<metaVars, eventVars, rankVars>>

NextEnrich == EnrichKeepCall

SpecEnrich == InitEnrich /\ [][NextEnrich]_vars

(***************************************************************************)
(* Claims about enrichKeep (checked under SpecEnrich)                      *)
(***************************************************************************)
\* the lookup of the i-th item did not yield a usable meta object
LookupFailed(i) == OutcomeAt(ekSvc, i) # "ok"

\* the i-th item is the first of the pool with its id
FirstOfId(items, i) == \A j \in 1..(i - 1) : items[j].id # items[i].id

\* C1: every candidate whose metadata lookup failed (non-success status, thrown
\* network error, unparsable body, body without a meta object) is in the
\* output with every field as it was before enrichment.  Read in the claim's
\* favour: only candidates of the pool that are the first with their id.
C1_FailedLookupKeepsOriginal ==
    pc = "enriched" =>
        \A i \in 1..Len(Take(ekItems, EnrichPool)) :
            (LookupFailed(i) /\ FirstOfId(ekItems, i))
                => \E j \in DOMAIN ekOut : ekOut[j] = ekItems[i]

\* C2 as claimed: the output has one element per distinct identifier of the
\* whole input, whatever its length.
C2_OnePerDistinctInputId ==
    pc = "enriched" =>
        /\ Len(ekOut) = Cardinality(IdsOf(ekItems))
        /\ IdsOf(ekOut) = IdsOf(ekItems)

\* C2 as amended: the output has exactly one element per distinct identifier
\* of the first 200 input candidates, whatever lookups fail; an element of
\* those 200 is absent only because an earlier one had its identifier.
C2_OnePerDistinctPoolId ==
    pc = "enriched" =>
        LET top == Take(ekItems, EnrichPool) IN
        /\ Len(ekOut) = Cardinality(IdsOf(top))
        /\ IdsOf(ekOut) = IdsOf(top)
        /\ \A i \in DOMAIN top :
              FirstOfId(top, i) => \E j \in DOMAIN ekOut : ekOut[j].id = top[i].id

\* C2 witness: an input longer than the pool, every lookup failing, and the
\* output as long as the pool
C2_Witness ==
    /\ pc = "enriched"
    /\ Len(ekItems) > EnrichPool
    /\ \A i \in 1..EnrichPool : LookupFailed(i)
    /\ Len(ekOut) = EnrichPool

\* C3: the output lists the survivors in input order, and the survivor of
\* each identifier is the (enriched or kept) first input element with it:
\* the j-th output is what the loop made of the j-th first occurrence.
C3_InputOrderFirstOccurrence ==
    pc = "enriched" =>
        LET top == Take(ekItems, EnrichPool)
            firsts == FirstIndices(top)
        IN  /\ Len(ekOut) = Len(firsts)
            /\ \A j \in DOMAIN ekOut :
                  ekOut[j] = EnrichItem(top[firsts[j]], ekHint, OutcomeAt(ekSvc, firsts[j]))

\* C3 witness: two inputs share an id, the lookup of the first fails and that
\* of the second succeeds, and the output is the first one, unenriched
C3_Witness ==
    /\ pc = "enriched"
    /\ Len(ekItems) = 2
    /\ ekItems[1].id = ekItems[2].id
    /\ ekItems[1] # ekItems[2]
    /\ OutcomeAt(ekSvc, 1) = "status"
    /\ OutcomeAt(ekSvc, 2) = "ok"
    /\ ekOut = <<ekItems[1]>>


(***************************************************************************)
(* The shared cache: new LRU({ max: 1000, ttl: 1000 * 60 * 60 * 6 })       *)
(*                                                                         *)
(* The cache is the sequence of its entries, the least recently used       *)
(* first.  Its get and set are those of the cache contract (spec 4.4):     *)
(* the library that implements them is not part of the sources.            *)
(***************************************************************************)
CacheMax == 1000

\* 1000 * 60 * 60 * 6 milliseconds
TTL == 21600000

\* a key that leaves the type out
CacheKeyWithoutType(type, id) == "meta:" \o Text(id)

\* `meta:${type}:${id}`
CacheKey(type, id) == "meta:" \o type \o ":" \o Text(id)

Entry(key, value, t) == [key |-> key, value |-> value, start |-> t]

\* the entry is not older than the TTL at time t
Fresh(e, t) == t - e.start <= TTL

\* a get that does not look at the age of the entry
CacheGetIgnoringAge(c, key, t) ==
    LET found == SelectSeq(c, LAMBDA e : e.key = key)
    IN  IF found # <<>> THEN <<found[1].value>> ELSE <<>>

\* cache.get(key) at time t: <<value>>, or <<>> for absent
CacheGet(c, key, t) ==
    LET found == SelectSeq(c, LAMBDA e : e.key = key)
    IN  IF found # <<>> /\ Fresh(found[1], t) THEN <<found[1].value>> ELSE <<>>

\* the cache after cache.get(key) at time t: an entry that is returned
\* becomes the most recently used, an expired one is removed
CacheAfterGet(c, key, t) ==
    LET found  == SelectSeq(c, LAMBDA e : e.key = key)
        others == SelectSeq(c, LAMBDA e : e.key # key)
    IN  IF found = <<>> THEN c
        ELSE IF Fresh(found[1], t) THEN Append(others, found[1])
        ELSE others

\* a set that makes room by dropping the most recently used entry
CacheSetEvictingNewest(c, key, value, t) ==
    LET others == SelectSeq(c, LAMBDA e : e.key # key)
    IN  IF Len(others) < Len(c) THEN Append(others, Entry(key, value, t))
        ELSE IF Len(c) >= CacheMax THEN Append(SubSeq(c, 1, Len(c) - 1), Entry(key, value, t))
        ELSE Append(c, Entry(key, value, t))

\* the cache after cache.set(key, value) at time t: the entry becomes the
\* most recently used; a new key in a full cache evicts the least recently
\* used entry
CacheSet(c, key, value, t) ==
    LET others == SelectSeq(c, LAMBDA e : e.key # key)
    IN  IF Len(others) < Len(c) THEN Append(others, Entry(key, value, t))
        ELSE IF Len(c) >= CacheMax THEN Append(Tail(c), Entry(key, value, t))
        ELSE Append(c, Entry(key, value, t))

(***************************************************************************)
(* Meta handler, and enrichment beside it                                  *)
(***************************************************************************)
\* the lookups fetchCinemetaMeta is called for by the loop of enrichKeep;
\* every call sends the service one request
EnrichRequests(items, typeHint) ==
    LET top == Take(items, EnrichPool)
    IN  [i \in 1..Len(top) |-> [type |-> Or(Or(top[i].type, typeHint), "movie"), id |-> top[i].id]]

\* the instants at which something happens
Instants == {0, TTL, TTL + 1}

\* the ids of the meta requests: two old ones and one never asked for
MetaIds == {Imdb(1), Imdb(2), Imdb(CacheMax + 1)}

\* the record the handler caches for an id the service knows
KnownMeta(type, id) == FetchCinemetaMeta(type, id, CinemetaResponse("ok", type, id)).value

\* the cache after meta requests for tt1 .. tt<CacheMax>, in this order, at
\* time 0, all answered by the service
WarmCache ==
    [i \in 1..CacheMax |-> Entry(CacheKey("movie", Imdb(i)), KnownMeta("movie", Imdb(i)), 0)]

\* the lists enrichKeep is called with beside the meta handler
MetaEnrichInputs ==
    {<<TraktCandidate(id, "A", 2020, "movie")>> : id \in MetaIds}
        \cup {<<TraktCandidate(Imdb(1), "A", 2020, "movie"), TraktCandidate(Imdb(1), "B", 0, "movie")>>}

\* no call of buildRows, of enrichKeep or of the catalog handler in progress
NoRowCall ==
    /\ caller = "none"
    /\ wantMany = FALSE
    /\ trakt = <<>>
    /\ lists = <<>>
    /\ rows = <<>>
    /\ request = NoRequest
    /\ served = NoPage
    /\ ekItems = <<>>
    /\ ekHint = "movie"
    /\ ekSvc = [head |-> <<>>, rest |-> "ok"]
    /\ ekOut = <<>>

RowsIdle == pc = "idle" /\ NoRowCall

InitMeta == RowsIdle /\ MetaIdle /\ EventsIdle /\ RankIdle

\* the cache empty, or full
InitCache ==
    /\ RowsIdle /\ EventsIdle /\ RankIdle
    /\ cache \in {<<>>, WarmCache}
    /\ now = 0
    /\ pending = <<>>
    /\ mres = NoMetaReply
    /\ issued = <<>>

\* defineMetaHandler up to its await, for one of the requests asked: the
\* cache is asked, and a hit is returned at once
MetaRequestAmong(asked) ==
    /\ pc = "idle"
    /\ Len(pending) < MaxPending
    /\ \E rq \in asked :
          LET key == CacheKey(rq.type, rq.id)
              hit == CacheGet(cache, key, now)
          IN  /\ cache' = CacheAfterGet(cache, key, now)
              /\ IF hit # <<>>
                 THEN /\ mres' = [outcome |-> "returned", key |-> key, meta |-> hit[1]]
                      /\ UNCHANGED pending
                 ELSE /\ pending' = Append(pending, [type |-> rq.type, id |-> rq.id])
                      /\ UNCHANGED mres
    /\ UNCHANGED <<now, issued, rowVars, eventVars, rankVars>>

\* a meta request for a movie
MetaRequest == MetaRequestAmong({[type |-> "movie", id |-> id] : id \in MetaIds})

\* defineMetaHandler after its await: fetchCinemetaMeta raised and so does
\* the handler, or its value is cached and returned
MetaFetched ==
    /\ pc = "idle"
    /\ \E i \in DOMAIN pending, outcome \in MetaOutcome :
          LET type == pending[i].type
              id   == pending[i].id
              key  == CacheKey(type, id)
              got  == FetchCinemetaMeta(type, id, CinemetaResponse(outcome, type, id))
          IN  /\ pending' = SubSeq(pending, 1, i - 1) \o SubSeq(pending, i + 1, Len(pending))
              /\ IF got.raised
                 THEN /\ mres' = [outcome |-> "rejected", key |-> key]
                      /\ UNCHANGED cache
                 ELSE /\ cache' = CacheSet(cache, key, got.value, now)
                      /\ mres' = [outcome |-> "returned", key |-> key, meta |-> got.value]
    /\ UNCHANGED <<now, issued, rowVars, eventVars, rankVars>>

\* time passes
Tick ==
    /\ pc = "idle"
    /\ \E t \in Instants : t > now /\ now' = t
    /\ UNCHANGED <<cache, pending, mres, issued, rowVars, eventVars, rankVars>>

\* enrichKeep(items, 'movie') beside the meta handler; it neither reads nor
\* writes the cache
EnrichBesideCache ==
    /\ pc = "idle"
    /\ \E items \in MetaEnrichInputs, outcome \in {"ok", "status"} :
          LET svc == [head |-> <<>>, rest |-> outcome]
          IN  /\ ekItems' = items
              /\ ekSvc' = svc
              /\ ekOut' = EnrichKeep(items, "movie", svc)
              /\ issued' = EnrichRequests(items, "movie")
    /\ pc' = "enriched"
    /\ UNCHANGED <<caller, wantMany, trakt, lists, rows, request, served, ekHint>>
    /\ UNCHANGED <<cache, now, pending, mres, eventVars, rankVars>>

\* the enrichment is over
EnrichDone ==
    /\ pc = "enriched"
    /\ pc' = "idle"
    /\ ekItems' = <<>>
    /\ ekSvc' = [head |-> <<>>, rest |-> "ok"]
    /\ ekOut' = <<>>
    /\ issued' = <<>>
    /\ UNCHANGED <<caller, wantMany, trakt, lists, rows, request, served, ekHint>>
    /\ UNCHANGED <<cache, now, pending, mres, eventVars, rankVars>>

NextMeta == MetaRequest \/ MetaFetched \/ Tick \/ EnrichBesideCache \/ EnrichDone

SpecMeta == InitMeta /\ [][NextMeta]_vars

\* the meta handler alone, on a cache that starts empty or full
NextCache == MetaRequest \/ MetaFetched \/ Tick

SpecCache == InitCache /\ [][NextCache]_vars

(***************************************************************************)
(* Claims checked under SpecCache                                          *)
(***************************************************************************)
\* the entries the cache holds for a key (one at most)
Held(key) == SelectSeq(cache, LAMBDA e : e.key = key)

MetaKeys == {CacheKey("movie", id) : id \in MetaIds}

\* this step is a meta request answered from the cache with the value of key
HitStep(key) ==
    /\ pending' = pending /\ now' = now /\ mres' # mres
    /\ mres'.outcome = "returned" /\ mres'.key = key

\* this step is a meta request that found key absent
MissStep(key) ==
    /\ Len(pending') = Len(pending) + 1
    /\ CacheKey(pending'[Len(pending')].type, pending'[Len(pending')].id) = key

Others(key) == SelectSeq(cache, LAMBDA e : e.key # key)

\* after this step key is the most recently used and the entries before it
\* are those of front, in their order
NewestAfter(key, front) ==
    /\ cache' # <<>>
    /\ cache'[Len(cache')].key = key
    /\ SubSeq(cache', 1, Len(cache') - 1) = front

\* this step removed the entry of key, which was older than the TTL, and
\* nothing else
ExpiredRemoved(key) ==
    /\ Len(cache') = Len(cache) - 1
    /\ Held(key) # <<>>
    /\ now > Held(key)[1].start + TTL
    /\ cache' = Others(key)

\* C13: the cache never holds more than 1000 entries; an access (get or set)
\* makes its key the most recently accessed and leaves the order of the
\* others alone, and a set of a new key at capacity evicts the least
\* recently accessed entry and no other.
C13_BoundedEvictsLeastRecent ==
    [][ /\ Len(cache') <= 1000
        /\ cache' # cache =>
              \E k \in MetaKeys :
                 \/ ExpiredRemoved(k)
                 \/ NewestAfter(k, IF Held(k) # <<>> THEN Others(k)
                                   ELSE IF Len(cache) < 1000 THEN cache
                                   ELSE Tail(cache)) ]_vars

\* C13 witness: the cache is full; tt1, the oldest entry, was asked for
\* again before a new key was set, and the entry evicted was that of tt2
C13_Witness ==
    /\ Len(cache) = CacheMax
    /\ Held(CacheKey("movie", Imdb(1))) # <<>>
    /\ Held(CacheKey("movie", Imdb(2))) = <<>>
    /\ Held(CacheKey("movie", Imdb(CacheMax + 1))) # <<>>


(***************************************************************************)
(* Claims checked under SpecMeta                                           *)
(***************************************************************************)
\* C14: enrichment looks a candidate up in the shared cache under
\* meta:<mediaKind>:<id>; while an unexpired entry for that key is held,
\* enriching the candidate sends the metadata service no request.
C14_EnrichmentUsesCache ==
    pc = "enriched" =>
        \A i \in DOMAIN issued :
            LET held == Held(CacheKey(issued[i].type, issued[i].id))
            IN  held = <<>> \/ ~Fresh(held[1], now)

\* C20: a failure of the metadata service never reaches the caller as an
\* error: the meta handler does not reject, and enrichment returns its
\* candidates.
C20_MetadataFailureNeverPropagates ==
    /\ mres.outcome # "rejected"
    /\ pc = "enriched" => Len(ekOut) >= 1


(***************************************************************************)
(* buildUserVec                                                            *)
(*                                                                         *)
(* Numbers.  The weights are multiples of a quarter: a value of the        *)
(* vector is Num(q), the number q/4, or NaN, or Str, a string.  A          *)
(* progress is given in halves (0, 1 for 0.5, 2 for 1), 0 standing for     *)
(* every falsy progress.                                                   *)
(***************************************************************************)
Num(q) == [t |-> "number", q |-> q]

NaN == [t |-> "NaN"]

\* a non-empty string
Str == [t |-> "string"]

\* the properties an object literal inherits from Object.prototype: each is
\* a function (or, for __proto__, an object)
ObjectPrototypeNames ==
    { "constructor", "toString", "valueOf", "toLocaleString", "hasOwnProperty",
      "isPrototypeOf", "propertyIsEnumerable", "__proto__" }

\* String.prototype.toLowerCase, on the tags of the inputs
ToLowerCase(t) ==
    CASE t = "Drama" -> "drama"
      [] t = "DRAMA" -> "drama"
      [] t = "Comedy" -> "comedy"
      [] t = "Action" -> "action"
      [] t = "toString" -> "tostring"
      [] OTHER -> t

\* const weights = { complete: 3, like: 2.5, start: 1.0, abandon: -0.5 }, in halves
OwnWeights == [complete |-> 6, like |-> 5, start |-> 2, abandon |-> -1]

\* (weights[e.type] || 0.5) * (1 + (e.progress || 0)): weights[e.type] is the
\* own property, or the inherited one (truthy, and not a number), or
\* undefined
EventWeight(e) ==
    IF e.type \in DOMAIN OwnWeights THEN Num(OwnWeights[e.type] * (2 + e.progress))
    ELSE IF e.type \in ObjectPrototypeNames THEN NaN
    ELSE Num(1 * (2 + e.progress))

\* (vec[k] || 0) + w
Accumulate(vec, k, w) ==
    LET inherited == k \notin DOMAIN vec /\ k \in ObjectPrototypeNames
        cur == IF k \in DOMAIN vec THEN vec[k] ELSE Num(0)
        acc == IF cur = NaN THEN Num(0) ELSE cur
    IN  IF inherited \/ acc = Str THEN Str
        ELSE IF w = NaN THEN NaN
        ELSE Num(acc.q + w.q)

\* vec[k] = v: an own property, except that __proto__ is a setter that
\* ignores a primitive
Assign(vec, k, v) ==
    IF k = "__proto__" THEN vec
    ELSE [x \in DOMAIN vec \cup {k} |-> IF x = k THEN v ELSE vec[x]]

\* for (const t of (e.tags || [])) { const k = t.toLowerCase(); vec[k] = (vec[k] || 0) + w; }
RECURSIVE AddTags(_, _, _)
AddTags(vec, tags, w) ==
    IF tags = <<>> THEN vec
    ELSE LET k == ToLowerCase(tags[1])
         IN  AddTags(Assign(vec, k, Accumulate(vec, k, w)), Tail(tags), w)

\* function buildUserVec(events); the empty object is the empty function <<>>
RECURSIVE BuildUserVec(_)
BuildUserVec(events) ==
    IF events = <<>> THEN <<>>
    ELSE LET before == BuildUserVec(SubSeq(events, 1, Len(events) - 1))
             e == events[Len(events)]
         IN  AddTags(before, e.tags, EventWeight(e))

Event(type, progress, tags) == [type |-> type, progress |-> progress, tags |-> tags]

\* the events of the enumerated logs: every kind with and without progress,
\* and the kind "complete" with every list of tags
EventInputs ==
    {Event(ty, pr, <<"Drama">>) :
        ty \in {"complete", "like", "start", "abandon", "watch", "constructor"}, pr \in {0, 1}}
      \cup {Event("complete", 0, tags) :
              tags \in {<<>>, <<"drama", "Comedy">>, <<"Drama", "drama">>, <<"constructor">>}}

InitVec ==
    /\ NoRowCall /\ MetaIdle /\ EventsIdle
    /\ pc = "events"
    /\ rkEvents \in SeqsUpTo(EventInputs, MaxLen)
    /\ rkItems = <<>>
    /\ rkDiv = FALSE
    /\ rkVec = <<>>
    /\ rkOut = <<>>

BuildUserVecCall ==
    /\ pc = "events"
    /\ rkVec' = BuildUserVec(rkEvents)
    /\ pc' = "vector"
    /\ UNCHANGED <<caller, wantMany, trakt, lists, rows, request, served, ekItems, ekHint, ekSvc, ekOut>>
    /\ UNCHANGED <<metaVars, eventVars, rkEvents, rkItems, rkDiv, rkOut>>

NextVec == BuildUserVecCall

SpecVec == InitVec /\ [][NextVec]_vars

(***************************************************************************)
(* Claims checked under SpecVec                                            *)
(***************************************************************************)
\* base(type) * (1 + progress) as claimed, in quarters
ClaimedWeight(e) ==
    (CASE e.type = "complete" -> 6 [] e.type = "like" -> 5 [] e.type = "start" -> 2
       [] e.type = "abandon" -> -1 [] OTHER -> 1) * (2 + e.progress)

\* the places in the tags of e of a tag equal to k ignoring case
Carrying(e, k) == {i \in DOMAIN e.tags : ToLowerCase(e.tags[i]) = k}

RECURSIVE ClaimedSum(_, _)
ClaimedSum(events, k) ==
    IF events = <<>> THEN 0
    ELSE ClaimedSum(Tail(events), k) + Cardinality(Carrying(events[1], k)) * ClaimedWeight(events[1])

\* the lowercase tags of the enumerated events, and one that none carries
TagKeys == {"drama", "comedy", "constructor", "action"}

\* C15: buildUserVec returns, for every lowercase tag k carried by an event,
\* the sum of base(type) * (1 + progress) over the tags equal to k ignoring
\* case (0.5 being the base of every kind other than complete, like, start
\* and abandon), and has no entry for a tag that no event carries.
C15_VectorIsWeightedTagSum ==
    pc = "vector" =>
        /\ \A k \in TagKeys :
              IF \E i \in DOMAIN rkEvents : Carrying(rkEvents[i], k) # {}
              THEN k \in DOMAIN rkVec /\ rkVec[k] = Num(ClaimedSum(rkEvents, k))
              ELSE k \notin DOMAIN rkVec
        /\ DOMAIN rkVec \subseteq TagKeys


(***************************************************************************)
(* rerank                                                                  *)
(*                                                                         *)
(* Numbers.  A similarity is kept in thousandths (the square root, rounded *)
(* towards zero, of its square in thousandths, rounded towards zero), and  *)
(* a score in ten-thousandths: rating*0.7 is 7000 a rating point,          *)
(* sim*2.5 is 25 a thousandth of similarity, recency*0.3 is 3000 and 90 a  *)
(* year from 2015.                                                         *)
(***************************************************************************)
\* function tagsToVec(tags): 1 (four quarters) under each lowercase tag
TagsToVec(tags) ==
    [k \in {ToLowerCase(tags[i]) : i \in DOMAIN tags} \ {"__proto__"} |-> Num(4)]

\* a[k] || 0 as the operand of a product: a number of quarters, or NaN for
\* what is no number (a string, an inherited function)
Operand(a, k) ==
    IF k \in DOMAIN a
    THEN (IF a[k] = NaN THEN Num(0) ELSE IF a[k] = Str THEN NaN ELSE a[k])
    ELSE IF k \in ObjectPrototypeNames THEN NaN ELSE Num(0)

\* the sum of the values of f
RECURSIVE Sum(_)
Sum(f) ==
    IF DOMAIN f = {} THEN 0
    ELSE LET k == CHOOSE x \in DOMAIN f : TRUE
         IN  f[k] + Sum([x \in DOMAIN f \ {k} |-> f[x]])

\* the integer part of the square root of x, which lies in lo..hi
RECURSIVE ISqrtIn(_, _, _)
ISqrtIn(x, lo, hi) ==
    IF lo = hi THEN lo
    ELSE LET mid == (lo + hi + 1) \div 2
         IN  IF mid * mid <= x THEN ISqrtIn(x, mid, hi) ELSE ISqrtIn(x, lo, mid - 1)

\* the integer part of the square root of x, for x up to a million
ISqrt(x) == ISqrtIn(x, 0, 1000)

\* cosine(a, b) || 0, in thousandths: NaN (a product with what is no
\* number) gives 0, and so does a vector of magnitude 0
Similarity(a, b) ==
    LET keys == DOMAIN a \cup DOMAIN b
        va(k) == Operand(a, k)
        vb(k) == Operand(b, k)
    IN  IF \E k \in keys : va(k) = NaN \/ vb(k) = NaN THEN 0
        ELSE LET dot == Sum([k \in keys |-> va(k).q * vb(k).q])
                 na  == Sum([k \in keys |-> va(k).q * va(k).q])
                 nb  == Sum([k \in keys |-> vb(k).q * vb(k).q])
             IN  IF na = 0 \/ nb = 0 THEN 0
                 ELSE (IF dot < 0 THEN -1 ELSE 1) * ISqrt(((dot * dot * 1000) \div (na * nb)) * 1000)

\* rating*0.7 + sim*2.5 + recency*0.3
Score(it, userVec) ==
    LET sim     == Similarity(userVec, TagsToVec(it.genres))
        rating  == OrNum(it.rating, 0)
        recency == IF it.year # 0 THEN 3000 + 90 * (it.year - 2015) ELSE 3000
    IN  7000 * rating + 25 * sim + recency

\* a sort that puts the later of two equal scores first
SortByScoreTiesReversed(scores) ==
    LET n == Len(scores)
        before(j, i) == scores[j] > scores[i] \/ (scores[j] = scores[i] /\ j > i)
        place(i) == Cardinality({j \in 1..n : before(j, i)}) + 1
    IN  [p \in 1..n |-> CHOOSE i \in 1..n : place(i) = p]

\* .sort((a,b)=>b.score-a.score): the places of the input in sorted order;
\* the sort is stable
SortByScore(scores) ==
    LET n == Len(scores)
        before(j, i) == scores[j] > scores[i] \/ (scores[j] = scores[i] /\ j < i)
        place(i) == Cardinality({j \in 1..n : before(j, i)}) + 1
    IN  [p \in 1..n |-> CHOOSE i \in 1..n : place(i) = p]

\* a signature that forgets the order of the genres
JoinUnordered(genres) == {genres[i] : i \in DOMAIN genres}

\* (s.it.genres||[]).join('|')
RECURSIVE Join(_)
Join(genres) ==
    IF genres = <<>> THEN ""
    ELSE IF Len(genres) = 1 THEN genres[1]
    ELSE genres[1] \o "|" \o Join(Tail(genres))

\* a head that holds the last element of each signature instead of the first
DiverseHeadKeepLast(keys) ==
    SelectSeq([p \in 1..Len(keys) |-> p], LAMBDA p : \A q \in (p + 1)..Len(keys) : keys[q] # keys[p])

\* the first loop over scored: the positions whose key was not seen before
DiverseHead(keys) ==
    SelectSeq([p \in 1..Len(keys) |-> p], LAMBDA p : \A q \in 1..(p - 1) : keys[q] # keys[p])

\* a rerank that returns after its first loop, without the candidates the
\* head left out
RerankHeadOnly(items, userVec, diversify) ==
    LET order  == SortByScore([i \in 1..Len(items) |-> Score(items[i], userVec)])
        scored == [p \in 1..Len(items) |-> items[order[p]]]
        head   == DiverseHead([p \in 1..Len(items) |-> Join(scored[p].genres)])
    IN  IF ~diversify THEN scored ELSE [i \in 1..Len(head) |-> scored[head[i]]]

\* function rerank(items, userVec, diversify=true)
Rerank(items, userVec, diversify) ==
    LET order  == SortByScore([i \in 1..Len(items) |-> Score(items[i], userVec)])
        scored == [p \in 1..Len(items) |-> items[order[p]]]
        head   == DiverseHead([p \in 1..Len(items) |-> Join(scored[p].genres)])
        tail   == SelectSeq([p \in 1..Len(items) |-> p], LAMBDA p : p \notin Range(head))
    IN  IF ~diversify THEN scored
        ELSE [i \in 1..Len(head) |-> scored[head[i]]] \o [i \in 1..Len(tail) |-> scored[tail[i]]]

\* a candidate as enrichKeep returns it
RankCandidate(n, rating, year, genres) ==
    [ id |-> Imdb(n), title |-> "Title", year |-> year, poster |-> "p", genres |-> genres,
      rating |-> rating, type |-> "movie", description |-> "" ]

\* the candidates of the enumerated lists
RankCandidates ==
    {RankCandidate(1, r, y, g) : r \in {0, 1}, y \in {0, 2020},
                                 g \in {<<>>, <<"Drama">>, <<"Drama", "Comedy">>, <<"Comedy", "Drama">>}}

\* candidates of two signatures, with scores that tie and scores that do not
DiverseCandidates ==
    { RankCandidate(1, 0, 2020, <<"Drama">>), RankCandidate(2, 0, 2020, <<"Drama">>),
      RankCandidate(3, 0, 2015, <<"Comedy">>), RankCandidate(4, 1, 0, <<"Comedy">>) }

\* candidates with the same two genres, listed in either order
OrderCandidates ==
    { RankCandidate(5, 0, 2020, <<"Drama", "Comedy">>), RankCandidate(6, 0, 2020, <<"Comedy", "Drama">>),
      RankCandidate(7, 0, 2019, <<"Drama", "Comedy">>) }

\* every short list, every list of three candidates of two signatures, and
\* every list of three candidates of the same two genres
RankInputs ==
    SeqsUpTo(RankCandidates, MaxLen) \cup [1..3 -> DiverseCandidates] \cup [1..3 -> OrderCandidates]

\* interest vectors: none, one tag, two tags of opposite signs, one that is
\* no number
UserVecs ==
    { BuildUserVec(es) :
        es \in { <<>>,
                 <<Event("complete", 1, <<"Drama">>)>>,
                 <<Event("like", 0, <<"drama", "Comedy">>), Event("abandon", 2, <<"Comedy">>)>>,
                 <<Event("constructor", 0, <<"Drama">>)>> } }

InitRank ==
    /\ NoRowCall /\ MetaIdle /\ EventsIdle
    /\ pc = "items"
    /\ rkEvents = <<>>
    /\ rkItems \in RankInputs
    /\ rkDiv \in BOOLEAN
    /\ rkVec \in UserVecs
    /\ rkOut = <<>>

RerankCall ==
    /\ pc = "items"
    /\ rkOut' = Rerank(rkItems, rkVec, rkDiv)
    /\ pc' = "ranked"
    /\ UNCHANGED <<caller, wantMany, trakt, lists, rows, request, served, ekItems, ekHint, ekSvc, ekOut>>
    /\ UNCHANGED <<metaVars, eventVars, rkEvents, rkItems, rkDiv, rkVec>>

NextRank == RerankCall

SpecRank == InitRank /\ [][NextRank]_vars


(***************************************************************************)
(* Claims checked under SpecRank                                           *)
(***************************************************************************)
\* the weight the interest vector gives a tag: 0 for a tag it lacks (and for
\* a weight that is no number)
WeightOf(vec, k) == IF k \in DOMAIN vec /\ vec[k].t = "number" THEN vec[k].q ELSE 0

\* the cosine of the interest vector and the lowercase genre vector, in
\* thousandths; 0 when either has magnitude 0
ClaimedSimilarity(vec, genres) ==
    LET g   == {ToLowerCase(genres[i]) : i \in DOMAIN genres}
        dot == Sum([k \in g |-> WeightOf(vec, k)])
        na  == Sum([k \in DOMAIN vec |-> WeightOf(vec, k) * WeightOf(vec, k)])
        nb  == Cardinality(g)
    IN  IF na = 0 \/ nb = 0 THEN 0
        ELSE (IF dot < 0 THEN -1 ELSE 1) * ISqrt(((dot * dot * 1000) \div (na * nb)) * 1000)

\* rating*0.7 + similarity*2.5 + recency*0.3, in ten-thousandths
ClaimedScore(it) ==
    7000 * it.rating + 25 * ClaimedSimilarity(rkVec, it.genres)
        + (IF it.year # 0 THEN 3000 + 90 * (it.year - 2015) ELSE 3000)

\* the orders of the input: p[i] is the place in rkItems of the i-th element
Orders == {p \in [DOMAIN rkItems -> DOMAIN rkItems] : \A i, j \in DOMAIN p : p[i] = p[j] => i = j}

\* p lists the input by non-increasing score, equal scores in input order
ByScoreStable(p) ==
    \A i, j \in DOMAIN p :
        i < j => \/ ClaimedScore(rkItems[p[i]]) > ClaimedScore(rkItems[p[j]])
                 \/ ClaimedScore(rkItems[p[i]]) = ClaimedScore(rkItems[p[j]]) /\ p[i] < p[j]

\* C16: without diversification rerank returns the input candidates by
\* non-increasing score (rating*0.7 + similarity*2.5 + recency*0.3), two
\* candidates of equal score in their input order.
C16_SortedByScoreStable ==
    (pc = "ranked" /\ ~rkDiv) =>
        \E p \in Orders :
            /\ ByScoreStable(p)
            /\ rkOut = [i \in DOMAIN rkItems |-> rkItems[p[i]]]

\* C16 witness: three candidates, two of them different and of equal score,
\* ranked by an interest vector that tells them from the third, and reordered
C16_Witness ==
    /\ pc = "ranked" /\ ~rkDiv
    /\ Len(rkItems) = 3
    /\ rkOut # rkItems
    /\ \E i \in DOMAIN rkItems : ClaimedSimilarity(rkVec, rkItems[i].genres) > 0
    /\ \E i, j \in DOMAIN rkOut :
          /\ i < j
          /\ rkOut[i] # rkOut[j]
          /\ ClaimedScore(rkOut[i]) = ClaimedScore(rkOut[j])

\* C17: with diversification rerank returns a head and a tail: the head
\* holds, for each genre signature, the first candidate of the score-sorted
\* sequence that has it, the tail every other candidate, both in
\* score-sorted order; every candidate is placed once.
C17_DiverseHeadThenTail ==
    (pc = "ranked" /\ rkDiv) =>
        \E p \in Orders :
            /\ ByScoreStable(p)
            /\ LET sorted == [i \in DOMAIN rkItems |-> rkItems[p[i]]]
                   first(i) == \A j \in 1..(i - 1) : Join(sorted[j].genres) # Join(sorted[i].genres)
                   places == [i \in DOMAIN rkItems |-> i]
                   head == SelectSeq(places, first)
                   tail == SelectSeq(places, LAMBDA i : ~first(i))
               IN  rkOut = [i \in 1..Len(head) |-> sorted[head[i]]]
                              \o [i \in 1..Len(tail) |-> sorted[tail[i]]]

\* C17 witness: the last candidate returned has the signature of the first
\* and a higher score than the second, whose signature is another
C17_Witness ==
    /\ pc = "ranked" /\ rkDiv
    /\ Len(rkOut) = 3
    /\ Join(rkOut[3].genres) = Join(rkOut[1].genres)
    /\ Join(rkOut[2].genres) # Join(rkOut[1].genres)
    /\ ClaimedScore(rkOut[3]) > ClaimedScore(rkOut[2])
    /\ rkOut[3] # rkOut[1]


\* the number of different genre lists among the input candidates
Signatures == Cardinality({rkItems[i].genres : i \in DOMAIN rkItems})

\* C25: the signature is the genre list in its order: the diverse head holds
\* one candidate per different genre list (two lists of the same genres in a
\* different order are different), and a candidate behind the head has the
\* genre list of a head candidate that is placed higher by score.
C25_SignatureKeepsGenreOrder ==
    (pc = "ranked" /\ rkDiv) =>
        /\ Len(rkOut) = Len(rkItems)
        /\ \A i, j \in 1..Signatures : i # j => rkOut[i].genres # rkOut[j].genres
        /\ \A j \in (Signatures + 1)..Len(rkOut) :
              \E i \in 1..Signatures :
                 /\ rkOut[i].genres = rkOut[j].genres
                 /\ ClaimedScore(rkOut[i]) >= ClaimedScore(rkOut[j])

\* C25 witness: the first two candidates returned list the same genres in a
\* different order, and the third has the list and the score of the first
C25_Witness ==
    /\ pc = "ranked" /\ rkDiv
    /\ Len(rkOut) = 3
    /\ Range(rkOut[1].genres) = Range(rkOut[2].genres)
    /\ rkOut[1].genres # rkOut[2].genres
    /\ rkOut[3].genres = rkOut[1].genres
    /\ ClaimedScore(rkOut[3]) = ClaimedScore(rkOut[2])
    /\ rkOut # rkItems


\* out holds the elements of inp, each place of inp once
IsPermutation(out, inp) ==
    /\ Len(out) = Len(inp)
    /\ \E p \in [DOMAIN inp -> DOMAIN inp] :
          /\ \A i, j \in DOMAIN inp : p[i] = p[j] => i = j
          /\ out = [i \in DOMAIN inp |-> inp[p[i]]]

\* C26: with diversification on or off, rerank returns a permutation of its
\* input (as long, each input candidate once) and leaves the input list as
\* it was.
C26_RerankPermutesInput ==
    [][ pc' = "ranked" =>
          /\ IsPermutation(rkOut', rkItems)
          /\ rkItems' = rkItems ]_vars

\* C26 witness: three different candidates were returned in another order,
\* with diversification, one of them behind the head
C26_Witness ==
    /\ pc = "ranked" /\ rkDiv
    /\ Len(rkItems) = 3
    /\ Cardinality(Range(rkItems)) = 3
    /\ Signatures = 2
    /\ rkOut # rkItems


(***************************************************************************)
(* Event log: POST /api/events and GET /api/feed                           *)
(*                                                                         *)
(* userEvents, a Map, is the function from the user ids that have a log to *)
(* their logs.  `reply` is the last exchange: the request and the answer.  *)
(***************************************************************************)
\* req.body: a text property that is missing is Undefined; progress and
\* tags are <<v>> when given and <<>> when missing
Body(userId, imdb, type, progress, tags) ==
    [userId |-> userId, imdb |-> imdb, type |-> type, progress |-> progress, tags |-> tags]

\* no body at all: req.body || {}
NoBody == Body(Undefined, Undefined, Undefined, <<>>, <<>>)

\* a check that forgets the type
AcceptsWithoutType(body) == ~(Falsy(body.userId) \/ Falsy(body.imdb))

\* if (!userId || !imdb || !type) return res.status(400)...
Accepts(body) == ~(Falsy(body.userId) \/ Falsy(body.imdb) \/ Falsy(body.type))

\* { imdb, type, progress, ts, tags } with the defaults progress = 0,
\* ts = Date.now() and tags = []
StoredEvent(body, t) ==
    [ imdb |-> body.imdb, type |-> body.type,
      progress |-> IF body.progress = <<>> THEN 0 ELSE body.progress[1],
      ts |-> t,
      tags |-> IF body.tags = <<>> THEN <<>> ELSE body.tags[1] ]

\* userEvents.get(userId) || []
LogOf(logs, userId) == IF userId \in DOMAIN logs THEN logs[userId] ELSE <<>>

\* a handler that starts the log of the user anew
LogsAfterPostReplacing(logs, userId, e) ==
    [u \in DOMAIN logs \cup {userId} |-> IF u = userId THEN <<e>> ELSE logs[u]]

\* arr.push(e); userEvents.set(userId, arr)
LogsAfterPost(logs, userId, e) ==
    [u \in DOMAIN logs \cup {userId} |-> IF u = userId THEN Append(LogOf(logs, userId), e) ELSE logs[u]]

\* every event of every log, as a handler that keeps one log for all users
\* would read them
RECURSIVE AllEvents(_)
AllEvents(logs) ==
    IF DOMAIN logs = {} THEN <<>>
    ELSE LET u == CHOOSE x \in DOMAIN logs : TRUE
         IN  logs[u] \o AllEvents([x \in DOMAIN logs \ {u} |-> logs[x]])

FeedEventsOfAllUsers(logs, userId) == AllEvents(logs)

\* const events = userEvents.get(userId) || []
FeedEvents(logs, userId) == LogOf(logs, userId)

\* the bodies posted: three well-formed ones, and the malformed ones
PostedBodies ==
    { Body("u1", "tt1", "complete", <<1>>, << <<"Drama">> >>),
      Body("u1", "tt2", "abandon", <<>>, <<>>),
      Body("anon", "tt1", "like", <<0>>, << <<"Comedy">> >>),
      NoBody,
      Body(Undefined, "tt1", "like", <<0>>, <<>>),
      Body("", "tt1", "like", <<0>>, <<>>),
      Body("u1", Undefined, "like", <<0>>, <<>>),
      Body("u1", "", "like", <<0>>, <<>>),
      Body("u1", "tt1", Undefined, <<0>>, <<>>),
      Body("u1", "tt1", "", <<0>>, <<>>) }

\* String(req.query.userId || 'anon')
FeedUsers == {"u1", "anon", "u2"}

\* what the list service answers during a feed or catalog request
FeedWorlds ==
    LET ok(d) == TraktResponse("ok", d)
    IN  { <<ok(RawRun("movie", 1, 2)), ok(RawRun("none", 1, 1)), ok(<<>>)>>,
          <<ok(RawRun("movie", 1, 1)), TraktResponse("throw", <<>>), ok(<<>>)>> }

\* rows.map(r => ({ ...r, items: rerank(r.items, userVec).slice(0, 100) }))
Personalized(rs, userVec) ==
    [i \in DOMAIN rs |-> [id |-> rs[i].id, title |-> rs[i].title,
                          items |-> Take(Rerank(rs[i].items, userVec, TRUE), MaxLimit)]]

NumAccepted(logs) == Sum([u \in DOMAIN logs |-> Len(logs[u])])

InitEvents == RowsIdle /\ MetaIdle /\ EventsIdle /\ RankIdle

\* app.post('/api/events', ...)
PostEvent ==
    /\ \E body \in PostedBodies :
          IF ~Accepts(body)
          THEN /\ reply' = [path |-> "events", req |-> body, status |-> 400,
                            error |-> "userId, imdb, type required"]
               /\ UNCHANGED userEvents
          ELSE /\ NumAccepted(userEvents) < MaxEvents
               /\ userEvents' = LogsAfterPost(userEvents, body.userId, StoredEvent(body, now))
               /\ reply' = [path |-> "events", req |-> body, status |-> 200, error |-> ""]
    /\ UNCHANGED <<feed, rowVars, metaVars, rankVars>>

\* app.get('/api/feed', ...) up to its await: the log is read and the
\* interest vector built
FeedRequest ==
    /\ feed = <<>>
    /\ \E u \in FeedUsers :
          feed' = <<[userId |-> u, userVec |-> BuildUserVec(FeedEvents(userEvents, u))]>>
    /\ UNCHANGED <<userEvents, reply, rowVars, metaVars, rankVars>>

\* app.get('/api/feed', ...) after buildRows: the rows are reranked and
\* sent, unless buildRows raised
FeedReply ==
    /\ feed # <<>>
    /\ \E world \in FeedWorlds :
          LET got == ListCalls(world)
          IN  IF AnyRaised(got)
              THEN reply' = [path |-> "feed", req |-> feed[1].userId, status |-> 0, error |-> "rejected"]
              ELSE reply' = [path |-> "feed", req |-> feed[1].userId, status |-> 200, error |-> "",
                             rows |-> Personalized(BuildRows(got[1].value, got[2].value, got[3].value,
                                                             TRUE, [i \in 1..4 |-> AllOk]),
                                                   feed[1].userVec)]
    /\ feed' = <<>>
    /\ UNCHANGED <<userEvents, rowVars, metaVars, rankVars>>

\* a whole catalog request beside the event log, which it does not touch
CatalogBesideEvents ==
    /\ pc = "idle"
    /\ \E world \in FeedWorlds, id \in {"trending-v2", "ai-series-v2"} :
          LET got   == ListCalls(world)
              built == BuildRows(got[1].value, got[2].value, got[3].value, TRUE, [i \in 1..4 |-> AllOk])
              items == PickItems(id, built)
              page  == Slice(items, 0, PageLimit(0))
          IN  IF AnyRaised(got)
              THEN pc' = "rejected" /\ UNCHANGED <<request, served>>
              ELSE /\ pc' = "served"
                   /\ request' = [id |-> id, type |-> "movie", skip |-> 0, limit |-> PageLimit(0)]
                   /\ served' = [items |-> items, page |-> page, metas |-> ToMetas(page, "movie")]
    /\ UNCHANGED <<caller, wantMany, trakt, lists, rows, ekItems, ekHint, ekSvc, ekOut>>
    /\ UNCHANGED <<metaVars, eventVars, rankVars>>

NextEvents == PostEvent \/ FeedRequest \/ FeedReply \/ CatalogBesideEvents \/ Finish

SpecEvents == InitEvents /\ [][NextEvents]_vars


(***************************************************************************)
(* Claims checked under SpecEvents                                         *)
(***************************************************************************)
\* userId, imdb or type is missing or empty (as in a request without body)
Malformed(body) ==
    \/ body.userId \in {Undefined, ""}
    \/ body.imdb \in {Undefined, ""}
    \/ body.type \in {Undefined, ""}

\* this step answers a POST to /api/events
PostStep == reply' # reply /\ reply'.path = "events"

\* C18: a POST to /api/events with a malformed payload is answered 400 with
\* a reason, and leaves the log of every user as it was.
C18_MalformedPostRejected ==
    [][ (PostStep /\ Malformed(reply'.req)) =>
            /\ reply'.status = 400
            /\ reply'.error # ""
            /\ userEvents' = userEvents ]_vars

\* C18 witness: a request without body was answered 400 while a log existed
C18_Witness ==
    /\ reply.path = "events"
    /\ reply.req = NoBody
    /\ reply.status = 400
    /\ LogOf(userEvents, "u1") # <<>>

\* C19: the log of a user only ever grows, at its end, by the event of a
\* post that was accepted for that user, and every accepted post adds its
\* event; feed and catalog requests leave every log unchanged.
C19_LogAppendOnly ==
    [][ /\ \A u \in DOMAIN userEvents \cup DOMAIN userEvents' :
              \/ LogOf(userEvents', u) = LogOf(userEvents, u)
              \/ /\ reply'.path = "events" /\ reply'.status = 200 /\ reply'.req.userId = u
                 /\ \E e \in Range(LogOf(userEvents', u)) :
                       /\ LogOf(userEvents', u) = Append(LogOf(userEvents, u), e)
                       /\ e.imdb = reply'.req.imdb
                       /\ e.type = reply'.req.type
        /\ (PostStep /\ reply'.status = 200) =>
              Len(LogOf(userEvents', reply'.req.userId)) = Len(LogOf(userEvents, reply'.req.userId)) + 1
        /\ (feed' # feed \/ pc' # pc) => userEvents' = userEvents ]_vars

\* C19 witness: two events of u1 are logged in the order of their posts, and
\* a feed request has been answered since
C19_Witness ==
    /\ Len(LogOf(userEvents, "u1")) = 2
    /\ LogOf(userEvents, "u1")[1].imdb = "tt2"
    /\ LogOf(userEvents, "u1")[2].imdb = "tt1"
    /\ reply.path = "feed"
    /\ reply.status = 200


(***************************************************************************)
(* The end-to-end scenario: two movies, tt0001 'A' and tt0002 'B', both    *)
(* trending and popular; the metadata service answers the lookup of the    *)
(* first and fails that of the second                                      *)
(***************************************************************************)
\* the identifier tt000<n>
Imdb4(n) == <<"t", "t", "0", "0", "0">> \o Digits(n)

\* the two rows of the list service, nested under row.movie or not; they
\* carry no year
ScenarioRows(wrap) == <<RawRow(wrap, Imdb4(1), "A", 0), RawRow(wrap, Imdb4(2), "B", 0)>>

\* the shows the list service knows
ScenarioShows == {RawRow("show", Imdb(1), "Show 1", 2021), RawRow("show", Imdb(2), "Show 2", 0)}

\* answers of the list service: the two movies to movies/trending and to
\* movies/popular, and anything to shows/trending
ScenarioWorlds ==
    { <<TraktResponse("ok", ScenarioRows(w)), TraktResponse("ok", ScenarioRows(w)), shows>> :
        w \in {"movie", "none"},
        shows \in {TraktResponse("ok", d) : d \in SeqsUpTo(ScenarioShows, MaxLen)}
                     \cup {TraktResponse(o, <<>>) : o \in {"status", "throw"}} }

\* the metadata service during a pass over the movies: the first lookup
\* (tt0001) succeeds, every later one fails in one of the three ways
ScenarioBehaviours == {[head |-> <<"ok">>, rest |-> f] : f \in {"status", "throw", "badjson"}}

\* buildRows: the first Promise.all settles
ScenarioLists ==
    /\ pc = "lists"
    /\ \E world \in ScenarioWorlds :
          /\ trakt' = [i \in 1..3 |-> IF world[i].net = "error" THEN "throw"
                                      ELSE IF ~world[i].ok THEN "status"
                                      ELSE "ok"]
          /\ lists' = ListCalls(world)
          /\ pc' = IF AnyRaised(ListCalls(world)) THEN "rejected" ELSE "pools"
    /\ UNCHANGED <<caller, wantMany, rows, request, served, ekItems, ekHint, ekSvc, ekOut>>
    /\ UNCHANGED <<metaVars, eventVars, rankVars>>

\* buildRows: the second Promise.all settles and the rows are returned
ScenarioEnrich ==
    /\ pc = "pools"
    /\ \E movies \in [{1, 3, 4} -> ScenarioBehaviours], shows \in PassBehaviours :
          rows' = BuildRows(lists[1].value, lists[2].value, lists[3].value, wantMany,
                            [i \in 1..4 |-> IF i = 2 THEN shows ELSE movies[i]])
    /\ pc' = "rows"
    /\ UNCHANGED <<caller, wantMany, trakt, lists, request, served, ekItems, ekHint, ekSvc, ekOut>>
    /\ UNCHANGED <<metaVars, eventVars, rankVars>>

NextScenario ==
    CallBuildRows \/ CatalogRequest \/ ScenarioLists \/ ScenarioEnrich \/ CatalogPage \/ Finish

SpecScenario == Init /\ [][NextScenario]_vars

(***************************************************************************)
(* Claims checked under SpecScenario                                       *)
(***************************************************************************)
\* C21: in the scenario buildRows with the small pool returns a quality row
\* of exactly two items, tt0001 then tt0002; tt0001 carries the name, poster,
\* description and genres of the metadata service, tt0002 keeps its title
\* 'B' and has no description.
C21_ScenarioQualityRow ==
    (pc = "rows" /\ ~wantMany) =>
        LET quality == rows[4].items
            known   == CinemetaRecord("movie", Imdb4(1))
        IN  /\ rows[4].id = "quality"
            /\ IdSeq(quality) = <<Imdb4(1), Imdb4(2)>>
            /\ quality[1].title = known.name
            /\ quality[1].poster = known.poster
            /\ quality[1].description = known.description
            /\ quality[1].genres = known.genres
            /\ quality[2].title = "B"
            /\ quality[2].description = Undefined

\* C21 witness: the small-pool build has returned, the second movie of its
\* quality row as the list service gave it
C21_Witness ==
    /\ pc = "rows" /\ ~wantMany
    /\ Len(rows[4].items) = 2
    /\ rows[4].items[1].poster # ""
    /\ rows[4].items[2] = TraktCandidate(Imdb4(2), "B", 0, "movie")


\* sim*2.5 + recency*0.3, the score without its rating term
UnratedScore(it, userVec) ==
    25 * Similarity(userVec, TagsToVec(it.genres))
        + (IF it.year # 0 THEN 3000 + 90 * (it.year - 2015) ELSE 3000)

\* C28: every candidate of every row buildRows returns has rating 0, enriched
\* or not, so its score is sim*2.5 + recency*0.3 under every interest vector.
C28_RowCandidatesUnrated ==
    pc \in {"rows", "served"} =>
        \A r \in DOMAIN rows : \A i \in DOMAIN rows[r].items :
            LET it == rows[r].items[i]
            IN  /\ it.rating = 0
                /\ \A vec \in UserVecs : Score(it, vec) = UnratedScore(it, vec)

\* C28 witness: buildRows has returned a row with an enriched candidate
\* (which has genres) and one that is not
C28_Witness ==
    /\ pc = "rows"
    /\ \E r \in DOMAIN rows :
          /\ Len(rows[r].items) = 2
          /\ rows[r].items[1].genres # <<>>
          /\ rows[r].items[1].rating = 0
          /\ rows[r].items[2].poster = ""
          /\ rows[r].items[2].rating = 0
          /\ \E vec \in UserVecs : Score(rows[r].items[1], vec) > Score(rows[r].items[2], vec)


(***************************************************************************)
(* traktList on its own                                                    *)
(*                                                                         *)
(* `trakt` is the call and its exchange: the type and limit arguments      *)
(* (the limit <<n>>, or <<>> when not given), the answer of the list       *)
(* service, and the limit of the request sent; `lists` is what the call    *)
(* returned.                                                               *)
(***************************************************************************)
\* traktList({ ..., limit=100, ... }): the default of a limit not given
DefaultListLimit == 100

\* the page size Math.min(limit, 100) caps the limit at
ListPageMax == 100

\* the limit parameter after destructuring
ListLimit(arg) == IF arg = <<>> THEN DefaultListLimit ELSE arg[1]

\* a request that passes the limit on as it is
SentLimitUncapped(limit) == limit

\* `limit=${Math.min(limit,100)}` of the url
SentLimit(limit) == IF limit < ListPageMax THEN limit ELSE ListPageMax

\* identifiers of the raw rows: two well-formed ones, tt1abc, nm1, tt and a
\* missing one
ListIds ==
    { Imdb(1), Imdb(2), Imdb(1) \o <<"a", "b", "c">>, <<"n", "m", "1">>, <<"t", "t">>, <<>> }

\* the raw rows: one per identifier nested under row.movie, and a bare one
ListRows ==
    {RawRow("movie", id, "Movie " \o Text(id), 2020) : id \in ListIds}
        \cup {RawRow("none", Imdb(2), "Bare", 0)}

\* the limits traktList is called with
ListLimits == {<<>>, <<1>>, <<ListPageMax>>, <<ListPageMax + 1>>}

InitList ==
    /\ pc = "call"
    /\ caller = "none"
    /\ wantMany = FALSE
    /\ \E type \in {"movies", "shows"}, limit \in ListLimits, outcome \in ListOutcome,
          data \in SeqsUpTo(ListRows, MaxLen) :
          /\ outcome # "ok" => data = <<>>
          /\ trakt = [type |-> type, limit |-> limit, answer |-> TraktResponse(outcome, data),
                      sent |-> <<>>]
    /\ lists = <<>>
    /\ rows = <<>>
    /\ request = NoRequest
    /\ served = NoPage
    /\ ekItems = <<>>
    /\ ekHint = "movie"
    /\ ekSvc = [head |-> <<>>, rest |-> "ok"]
    /\ ekOut = <<>>
    /\ MetaIdle /\ EventsIdle /\ RankIdle

\* traktList({ type, path: 'trending', limit }): the request is sent and the
\* answer turned into candidates
TraktListCall ==
    /\ pc = "call"
    /\ trakt' = [trakt EXCEPT !.sent = <<[type |-> trakt.type, path |-> "trending", page |-> 1,
                                          limit |-> SentLimit(ListLimit(trakt.limit))]>>]
    /\ lists' = <<TraktList(trakt.type, trakt.answer)>>
    /\ pc' = "called"
    /\ UNCHANGED <<caller, wantMany, rows, request, served, ekItems, ekHint, ekSvc, ekOut>>
    /\ UNCHANGED <<metaVars, eventVars, rankVars>>

NextList == TraktListCall

SpecList == InitList /\ [][NextList]_vars

(***************************************************************************)
(* Claims checked under SpecList                                           *)
(***************************************************************************)
\* 'tt' followed by one or more digits and nothing else
WellFormedId(id) ==
    /\ Len(id) >= 3
    /\ id[1] = "t" /\ id[2] = "t"
    /\ \A i \in 3..Len(id) : id[i] \in Digit

\* C22: every candidate traktList returns has an identifier that is 'tt'
\* followed by one or more digits and nothing else; a row whose identifier is
\* missing or of another form is dropped without an error, and the rows that
\* remain keep their upstream order.
C22_OnlyWellFormedIds ==
    (pc = "called" /\ trakt.answer.ok /\ trakt.answer.net = "ok" /\ trakt.answer.json = "parsed") =>
        LET good == SelectSeq(trakt.answer.data, LAMBDA row : WellFormedId(row.imdb))
        IN  /\ ~lists[1].raised
            /\ \A i \in DOMAIN lists[1].value : WellFormedId(lists[1].value[i].id)
            /\ IdSeq(lists[1].value) = [i \in 1..Len(good) |-> good[i].imdb]

RecoveryWorlds ==
    LET ok(d) == TraktResponse("ok", d)
        down  == TraktResponse("status", <<>>)
    IN  { <<down, down, down>>,
          <<down, down, ok(<<RawRow("show", Imdb(1), "Show 1", 2021)>>)>>,
          <<ok(RawRun("movie", 1, 2)), ok(RawRun("none", 1, 1)), ok(<<>>)>>,
          <<ok(RawRun("movie", 2, 3)), ok(<<>>), ok(<<RawRow("show", Imdb(1), "Show 1", 2021)>>)>>,
          <<ok(RawRun("movie", 1, 1)), TraktResponse("throw", <<>>), ok(<<>>)>> }

\* the metadata service during a catalog request: working, or down
RecoveryServices == {[i \in 1..4 |-> [head |-> <<>>, rest |-> r]] : r \in {"ok", "status"}}

\* a handler that keeps the rows it built for an earlier request
CatalogRowsMemoised(previous, fresh) == IF previous # <<>> THEN previous ELSE fresh

\* const rows = await buildRows({ userId, wantMany: true }): the rows of the
\* handler are those this call of buildRows returned
CatalogRows(previous, fresh) == fresh

\* the outcome of each of the three list requests
OutcomesOf(world) ==
    [i \in 1..3 |-> IF world[i].net = "error" THEN "throw"
                    ELSE IF ~world[i].ok THEN "status"
                    ELSE IF world[i].json = "error" THEN "badjson"
                    ELSE "ok"]

\* a whole catalog request, with the default limit
CatalogRound ==
    /\ pc \in {"idle", "served", "rejected"}
    /\ Len(trakt) < MaxRequests
    /\ \E world \in RecoveryWorlds, svc \in RecoveryServices,
          id \in {"trending-v2", "ai-series-v2"}, skip \in {0, 1} :
          LET got   == ListCalls(world)
              type  == IF id = "ai-series-v2" THEN "series" ELSE "movie"
              built == CatalogRows(rows, BuildRows(got[1].value, got[2].value, got[3].value, TRUE, svc))
              items == PickItems(id, built)
              page  == Slice(items, skip, skip + PageLimit(0))
          IN  /\ trakt' = Append(trakt, OutcomesOf(world))
              /\ lists' = got
              /\ request' = [id |-> id, type |-> type, skip |-> skip, limit |-> PageLimit(0)]
              /\ IF AnyRaised(got)
                 THEN pc' = "rejected" /\ served' = NoPage /\ UNCHANGED rows
                 ELSE /\ pc' = "served"
                      /\ rows' = built
                      /\ served' = [items |-> items, page |-> page, metas |-> ToMetas(page, type)]
    /\ caller' = "catalog"
    /\ wantMany' = TRUE
    /\ UNCHANGED <<ekItems, ekHint, ekSvc, ekOut>>
    /\ UNCHANGED <<metaVars, eventVars, rankVars>>

NextRecovery == CatalogRound

SpecRecovery == Init /\ [][NextRecovery]_vars

(***************************************************************************)
(* Claims checked under SpecRecovery                                       *)
(***************************************************************************)
\* this step is a catalog request that was answered
AnsweredStep == Len(trakt') = Len(trakt) + 1 /\ pc' = "served"

\* what a catalog request returns when its rows are built from the lists ls
\* alone, the metadata service behaving as svc
FreshServed(ls, req, svc) ==
    LET fresh == BuildRows(ls[1].value, ls[2].value, ls[3].value, TRUE, svc)
        items == PickItems(req.id, fresh)
        page  == Slice(items, req.skip, req.skip + req.limit)
    IN  [items |-> items, page |-> page, metas |-> ToMetas(page, req.type)]

OtherLogs(logs, userId) ==
    LET e == [imdb |-> "tt9", type |-> "like", progress |-> 1, ts |-> 0, tags |-> <<"Comedy">>]
    IN  UNION { { [u \in DOMAIN logs \cup {o} |-> IF u = o THEN <<e>> ELSE logs[u]],
                  [u \in DOMAIN logs \ {o} |-> logs[u]] } : o \in FeedUsers \ {userId} }

\* the rows the feed returns for an interest vector, given what the list
\* service answers
FeedRows(world, userVec) ==
    LET got == ListCalls(world)
    IN  Personalized(BuildRows(got[1].value, got[2].value, got[3].value, TRUE, [i \in 1..4 |-> AllOk]),
                     userVec)

\* the interest vector of a feed request is that of the user's own events
OwnVector(logs, asked) == asked.userVec = BuildUserVec(LogOf(logs, asked.userId))

\* the interest vector of a feed request is the same under every log that
\* agrees on the user's own events
SameVectorUnder(logs, asked) ==
    \A others \in OtherLogs(logs, asked.userId) :
        BuildUserVec(FeedEvents(others, asked.userId)) = asked.userVec

\* C27: the feed of a user depends on that user's own events only: the
\* interest vector of a feed request is built from the user's own log, and is
\* the same whatever the logs of other users hold; the rows returned are those
\* the upstream answers and this vector give.
C27_FeedDependsOnOwnEvents ==
    [][ /\ (feed = <<>> /\ feed' # <<>>) =>
              /\ OwnVector(userEvents, feed'[1])
              /\ SameVectorUnder(userEvents, feed'[1])
        /\ (feed # <<>> /\ feed' = <<>> /\ reply'.status = 200) =>
              reply'.rows \in {FeedRows(world, feed[1].userVec) :
                                 world \in {w \in FeedWorlds : ~AnyRaised(ListCalls(w))}} ]_vars

\* C27 witness: u1 and anon both have events, and the feed of u1 was
\* returned, ranked by an interest vector
C27_Witness ==
    /\ LogOf(userEvents, "u1") # <<>>
    /\ LogOf(userEvents, "anon") # <<>>
    /\ reply.path = "feed"
    /\ reply.status = 200
    /\ reply.req = "u1"
    /\ Len(reply.rows[1].items) = 2


(***************************************************************************)
(* Meta requests of both types                                             *)
(***************************************************************************)
\* the requests made: tt1 as a movie and as a series, tt2 as a movie
KeyRequests ==
    { [type |-> "movie", id |-> Imdb(1)], [type |-> "series", id |-> Imdb(1)],
      [type |-> "movie", id |-> Imdb(2)] }

KeyRequest == MetaRequestAmong(KeyRequests)

NextKeys == KeyRequest \/ MetaFetched \/ Tick

SpecKeys == InitMeta /\ [][NextKeys]_vars

(***************************************************************************)
(* Claims checked under SpecKeys                                           *)
(***************************************************************************)
\* the key meta:<type>:<id> of a request
KeyOf(rq) == "meta:" \o rq.type \o ":" \o Text(rq.id)

\* the entries c holds under a key
HeldIn(c, key) == SelectSeq(c, LAMBDA e : e.key = key)

\* the entries c holds under other keys
NotUnder(c, key) == SelectSeq(c, LAMBDA e : e.key # key)

\* a request for rq was answered from the cache: it was given the unexpired
\* entry of its key, and the metadata service was not called
AnsweredFromCache(rq, c, t, p, p2, answer) ==
    /\ HeldIn(c, KeyOf(rq)) # <<>>
    /\ t <= HeldIn(c, KeyOf(rq))[1].start + TTL
    /\ answer.meta = HeldIn(c, KeyOf(rq))[1].value
    /\ p2 = p

\* a request for rq missed: no unexpired entry of its key was held, and the
\* metadata service was called once
Missed(rq, c, t, p, p2) ==
    /\ \/ HeldIn(c, KeyOf(rq)) = <<>>
       \/ t > HeldIn(c, KeyOf(rq))[1].start + TTL
    /\ p2 = Append(p, rq)

\* the lookup of a request has ended: when it failed the cache is as it was,
\* otherwise its result, the record of <id> and <type>, is the entry of
\* meta:<type>:<id> and no other entry has changed
LookupEnded(c, c2, answer) ==
    IF answer.outcome = "rejected" THEN c2 = c
    ELSE /\ \E rq \in KeyRequests :
               /\ answer.key = KeyOf(rq)
               /\ answer.meta.id = rq.id /\ answer.meta.type = rq.type
         /\ Len(HeldIn(c2, answer.key)) = 1
         /\ HeldIn(c2, answer.key)[1].value = answer.meta
         /\ NotUnder(c2, answer.key) = NotUnder(c, answer.key)

\* every entry is stored under the key of its own id and type
KeysMatchRecords(c) ==
    \A i \in DOMAIN c :
        \E rq \in KeyRequests :
            c[i].key = KeyOf(rq) /\ c[i].value.id = rq.id /\ c[i].value.type = rq.type

====
